---- MODULE Spec2Model ----
(***************************************************************************)
(* Batch orchestration, retry policy and response reconciliation of the    *)
(* jive translators.  Four orchestrators are modelled side by side; the    *)
(* variable impl says which one a behaviour follows:                       *)
(*   "translator"  packages/translator/src/translator.ts translateMessages *)
(*   "cli"         the CLI's older copy (src/unnamed/part_009)             *)
(*   "core"        packages/core translateMessages (structured output)     *)
(*   "revise"      packages/core reviseMessages (structured output)        *)
(***************************************************************************)
EXTENDS Integers, Sequences, FiniteSets, TLC

\* ------------------------------------------------------------------ bounds
\* An input has q full batches plus a remainder, q in 0..MaxFullBatches.
MaxFullBatches == 2

\* ------------------------------------------------------- program constants
batchSize == 10
TRANSLATION_BATCH_SIZE == 100
REVISION_BATCH_SIZE == 100
maxAttempts == 3
maxRetries == 3
baseDelayMs == 2000

\* ----------------------------------------------------------------- helpers
Min(a, b) == IF a < b THEN a ELSE b

SetMin(S) == CHOOSE x \in S : \A y \in S : x <= y

SetMax(S) == CHOOSE x \in S : \A y \in S : y <= x

Range(s) == {s[j] : j \in DOMAIN s}

Implementations == {"translator", "cli", "core", "revise"}

\* The two free-text orchestrators, which call the model through withRetry.
RetryImpls == {"translator", "cli"}

BatchSizeOf(im) ==
    CASE im = "translator" -> batchSize
      [] im = "cli" -> batchSize
      [] im = "core" -> TRANSLATION_BATCH_SIZE
      [] im = "revise" -> REVISION_BATCH_SIZE

\* Object.entries(messages): the keys of a Record are distinct; key k is the
\* k-th inserted key, its source text is Src(k).
EntriesOf(count) == [k \in 1..count |-> k]

Src(k) == <<"en", k>>

\* What the model answers when it translates key k.
Tr(k) == <<"de", k>>

\* Input sizes: fewer than MaxFullBatches full batches and a remainder of 0, 1
\* or half a batch; or MaxFullBatches full batches, alone or with half a batch.
EntryCounts(B) ==
    {q * B + r : q \in 0..(MaxFullBatches - 1), r \in {0, 1, B \div 2}}
        \cup {MaxFullBatches * B, MaxFullBatches * B + B \div 2}

\* A faulty slice that takes its end index as inclusive.
sliceInclusive(s, start, end) == SubSeq(s, start + 1, Min(end + 1, Len(s)))

\* Array.prototype.slice(start, end): 0-based, end exclusive, clamped.
slice(s, start, end) == SubSeq(s, start + 1, Min(end, Len(s)))

\* ------------------------------------------------------------ model output
\* A response text is a sequence of tokens: braces, prose without braces, a
\* well-formed member list "k1": "v1", ..., and a dangling member ("k": ).
Tok(t) == [t |-> t, kv |-> << >>]

LBrace == Tok("{")

RBrace == Tok("}")

Prose == Tok("prose")

Dangling == Tok("dangling")

Members(f) == [t |-> "members", kv |-> f]

Translations(keys) == [k \in keys |-> Tr(k)]

\* A key the model invents: it is no key of the input.
InventedKey(es) == Len(es) + 1

\* The objects a model may answer for batch b of entries es: every key of the
\* batch; the batch without its first key; no key; the batch plus the first
\* key of the input and an invented key.
AllKeys(b) == Translations(Range(b))

MissingKey(b) == Translations(Range(Tail(b)))

Intruding(b, es) == Translations(Range(b) \cup {es[1], InventedKey(es)})

ResponseTexts(b, es) ==
    { << Prose >>,
      << LBrace, Members(AllKeys(b)), RBrace >>,
      << Prose, LBrace, Members(AllKeys(b)), RBrace, Prose >>,
      << LBrace, Members(MissingKey(b)), RBrace >>,
      << LBrace, RBrace >>,
      << LBrace, Members(AllKeys(b)), Dangling, RBrace >>,
      << LBrace, Members(AllKeys(b)), RBrace, Prose, RBrace >>,
      << LBrace, Members(AllKeys(b)), RBrace, Prose,
         LBrace, Members(Intruding(b, es)), RBrace >>,
      << LBrace, Members(Intruding(b, es)), RBrace >>,
      << RBrace, Prose, LBrace >>,
      << LBrace, Members(AllKeys(b)) >> }

\* /{[\s\S]*}/.exec(response): leftmost match, greedy, so from the first "{"
\* to the last "}" after it; << >> stands for null (no match).
jsonMatch(text) ==
    LET opens == {j \in DOMAIN text : text[j].t = "{"}
        closes == {j \in DOMAIN text : text[j].t = "}" /\ j > SetMin(opens)}
    IN IF opens = {} THEN << >>
       ELSE IF closes = {} THEN << >>
       ELSE SubSeq(text, SetMin(opens), SetMax(closes))

\* JSON.parse of a region: an object when the region is "{" "}" or "{"
\* members "}", a SyntaxError otherwise.
JSONparse(region) ==
    LET isEmptyObject == Len(region) = 2 /\ region[1].t = "{" /\ region[2].t = "}"
        isObject == /\ Len(region) = 3
                    /\ region[1].t = "{"
                    /\ region[2].t = "members"
                    /\ region[3].t = "}"
    IN [ok |-> isEmptyObject \/ isObject,
        value |-> IF isObject THEN region[2].kv ELSE << >>]

\* for (const [key, value] of Object.entries(batchTranslated)) translated[key] = value
MergeEntries(acc, obj) ==
    [k \in DOMAIN acc \cup DOMAIN obj |-> IF k \in DOMAIN obj THEN obj[k] ELSE acc[k]]

\* for (const [key, value] of batch) translated[key] = value
FallBack(acc, b) == MergeEntries(acc, [k \in Range(b) |-> Src(k)])

\* Whether the free-text translator takes one of its two fallback branches.
UsesFallback(text) ==
    IF jsonMatch(text) = << >> THEN TRUE ELSE ~JSONparse(jsonMatch(text)).ok

\* The free-text reconciliation of one batch.
ReconcileText(acc, b, text) ==
    IF jsonMatch(text) # << >>
    THEN IF JSONparse(jsonMatch(text)).ok
         THEN MergeEntries(acc, JSONparse(jsonMatch(text)).value)
         ELSE FallBack(acc, b)
    ELSE FallBack(acc, b)

\* generateText(...).output of the core translator: absent, or an object.
NoOutput == [present |-> FALSE, isArray |-> FALSE, value |-> << >>]

ObjectOutput(f) == [present |-> TRUE, isArray |-> FALSE, value |-> f]

StructuredOutputs(b, es) ==
    { NoOutput,
      ObjectOutput(AllKeys(b)),
      ObjectOutput(MissingKey(b)),
      ObjectOutput(<< >>),
      ObjectOutput(Intruding(b, es)) }

\* A faulty reconciliation that empties the accumulator on an absent output.
ReconcileOutputClears(acc, out) ==
    IF out.present THEN MergeEntries(acc, out.value) ELSE << >>

\* if (result.output) { ... translated[key] = value }
ReconcileOutput(acc, out) ==
    IF out.present THEN MergeEntries(acc, out.value) ELSE acc

\* A revision suggestion for key k.
Suggestion(k) ==
    [key |-> k, original |-> Src(k), suggested |-> Tr(k),
     reason |-> "typo", type |-> "grammar"]

ArrayOutput(list) == [present |-> TRUE, isArray |-> TRUE, value |-> list]

\* generateText(...).output of reviseMessages: absent, an array of
\* suggestions (possibly empty), or a value that is no array.
RevisionOutputs(b) ==
    { NoOutput,
      ArrayOutput(<< >>),
      ArrayOutput(<< Suggestion(b[1]) >>),
      ObjectOutput(<< >>) }

\* if (result.output && Array.isArray(result.output)) suggestions.push(...)
ReconcileRevision(acc, out) ==
    IF out.present /\ out.isArray THEN acc \o out.value ELSE acc

\* ------------------------------------------------------------------ errors
\* Error messages are character sequences, so that String.prototype.includes
\* is a substring search.
\* "429"
Needle429 ==
    << "4", "2", "9" >>

\* "Resource exhausted"
NeedleExhausted ==
    << "R", "e", "s", "o", "u", "r", "c", "e", " ", "e", "x", "h", "a", "u",
       "s", "t", "e", "d" >>

\* "quota"
NeedleQuota ==
    << "q", "u", "o", "t", "a" >>

\* "Error 429: Rate limited"
Msg429 ==
    << "E", "r", "r", "o", "r", " ", "4", "2", "9", ":", " ", "R", "a", "t",
       "e", " ", "l", "i", "m", "i", "t", "e", "d" >>

\* "Resource exhausted. Try again later."
MsgExhausted ==
    << "R", "e", "s", "o", "u", "r", "c", "e", " ", "e", "x", "h", "a", "u",
       "s", "t", "e", "d", ".", " ", "T", "r", "y", " ", "a", "g", "a", "i",
       "n", " ", "l", "a", "t", "e", "r", "." >>

\* "API quota exceeded"
MsgQuota ==
    << "A", "P", "I", " ", "q", "u", "o", "t", "a", " ", "e", "x", "c", "e",
       "e", "d", "e", "d" >>

\* "Authentication failed"
MsgAuth ==
    << "A", "u", "t", "h", "e", "n", "t", "i", "c", "a", "t", "i", "o", "n",
       " ", "f", "a", "i", "l", "e", "d" >>

\* "Quota exceeded"
MsgCapitalQuota ==
    << "Q", "u", "o", "t", "a", " ", "e", "x", "c", "e", "e", "d", "e", "d" >>

\* "Rate limit exceeded. Maximum retry attempts reached."
MsgRateLimit ==
    << "R", "a", "t", "e", " ", "l", "i", "m", "i", "t", " ", "e", "x", "c",
       "e", "e", "d", "e", "d", ".", " ", "M", "a", "x", "i", "m", "u", "m",
       " ", "r", "e", "t", "r", "y", " ", "a", "t", "t", "e", "m", "p", "t",
       "s", " ", "r", "e", "a", "c", "h", "e", "d", "." >>

\* "Max retries exceeded"
MsgMaxRetries ==
    << "M", "a", "x", " ", "r", "e", "t", "r", "i", "e", "s", " ", "e", "x",
       "c", "e", "e", "d", "e", "d" >>

\* A thrown value: an Error with a name and a message, or a value that is no
\* Error (isError = FALSE), here a thrown string.
ErrorOf(msg) == [isError |-> TRUE, name |-> "Error", message |-> msg]

ThrownString(msg) == [isError |-> FALSE, name |-> "string", message |-> msg]

\* Nothing thrown.
NoError == [isError |-> FALSE, name |-> "none", message |-> << >>]

\* class RateLimitError extends Error, with its default message.
RateLimitError == [isError |-> TRUE, name |-> "RateLimitError", message |-> MsgRateLimit]

\* What a model invocation may throw.
ProviderErrors ==
    { ErrorOf(Msg429), ErrorOf(MsgExhausted), ErrorOf(MsgQuota),
      ErrorOf(MsgAuth), ErrorOf(MsgCapitalQuota), ThrownString(Msg429) }

\* String.prototype.includes
includes(s, sub) ==
    \E p \in 1..(Len(s) - Len(sub) + 1) : SubSeq(s, p, p + Len(sub) - 1) = sub

\* A faulty classification that reads the message of any thrown value.
isRateLimitedAnyValue(error) ==
    \/ includes(error.message, Needle429)
    \/ includes(error.message, NeedleExhausted)
    \/ includes(error.message, NeedleQuota)

\* const isRateLimited = error instanceof Error && (...includes('429') || ...)
isRateLimited(error) ==
    /\ error.isError
    /\ \/ includes(error.message, Needle429)
       \/ includes(error.message, NeedleExhausted)
       \/ includes(error.message, NeedleQuota)

\* ------------------------------------------------------------ retry policy
Throw(error) == [do |-> "throw", error |-> error, delay |-> 0]

Sleep(delay) == [do |-> "sleep", error |-> NoError, delay |-> delay]

\* A faulty catch clause that rethrows the provider's error on the last attempt.
withRetryCatchRethrows(error, att) ==
    IF ~isRateLimited(error) \/ att = maxAttempts - 1 THEN Throw(error)
    ELSE Sleep(baseDelayMs * (2 ^ att))

\* A faulty catch clause that backs off after any error, rate-limited or not.
withRetryCatchRetriesAll(error, att) ==
    IF att = maxAttempts - 1
    THEN Throw(IF isRateLimited(error) THEN RateLimitError ELSE error)
    ELSE Sleep(baseDelayMs * (2 ^ att))

\* A faulty catch clause that gives up at the first rate-limit error.
withRetryCatchGivesUp(error, att) ==
    IF ~isRateLimited(error) THEN Throw(error) ELSE Throw(RateLimitError)

\* A faulty catch clause whose backoff delay does not grow.
withRetryCatchConstantDelay(error, att) ==
    IF ~isRateLimited(error) THEN Throw(error)
    ELSE IF att = maxAttempts - 1 THEN Throw(RateLimitError)
    ELSE Sleep(baseDelayMs)

\* A faulty catch clause that backs off after the last attempt as well.
withRetryCatchSleepsLast(error, att) ==
    IF ~isRateLimited(error) THEN Throw(error)
    ELSE Sleep(baseDelayMs * (2 ^ att))

\* The catch clause of withRetry in packages/translator.
withRetryCatch(error, att) ==
    IF ~isRateLimited(error) THEN Throw(error)
    ELSE IF att = maxAttempts - 1 THEN Throw(RateLimitError)
    ELSE Sleep(baseDelayMs * (2 ^ att))

\* The loop condition of withRetry in packages/translator.
withRetryLoop(att) == att < maxAttempts

\* The catch clause of withRetry in the CLI copy.
withRetryCatchCli(error, att) ==
    IF ~isRateLimited(error) \/ att = maxRetries THEN Throw(error)
    ELSE Sleep(baseDelayMs * (2 ^ att))

\* The loop condition of withRetry in the CLI copy.
withRetryLoopCli(att) == att <= maxRetries

\* let lastError: Error = new Error('Max retries exceeded')
InitialLastError == ErrorOf(MsgMaxRetries)

CatchOf(im, error, att) ==
    IF im = "translator" THEN withRetryCatch(error, att)
    ELSE withRetryCatchCli(error, att)

LoopOf(im, att) ==
    IF im = "translator" THEN withRetryLoop(att) ELSE withRetryLoopCli(att)

\* What follows the loop of withRetry, were it ever left.
AfterLoopOf(im, last) == IF im = "translator" THEN RateLimitError ELSE last

\* ------------------------------------------------- advising: model text
\* The text of an advising answer is a sequence of characters; a run of
\* ordinary characters (a word) is one element of the sequence, since the
\* scanner and the JSON grammar treat every character of such a run alike.
Quote == "\""

Backslash == "\\"

\* At most MaxItems items in the array of an answer.
MaxItems == 2

\* The calls of verifyApiKey a caller makes.
MaxVerifications == 2

\* JSON values: strings, objects (a list of members), arrays (a list of
\* items held as members with an empty key).
StringValue(cs) == [type |-> "string", chars |-> cs, items |-> << >>]

ObjectValue(ms) == [type |-> "object", chars |-> << >>, items |-> ms]

ArrayValue(ms) == [type |-> "array", chars |-> << >>, items |-> ms]

Member(k, v) == [key |-> k, val |-> v]

\* undefined
Undefined == [type |-> "undefined", chars |-> << >>, items |-> << >>]

\* The result of parsing from a position: whether it succeeded, the position
\* after the value, the value.
Fail == [ok |-> FALSE, next |-> 0, value |-> Undefined]

Parsed(next, value) == [ok |-> TRUE, next |-> next, value |-> value]

\* The characters a backslash may escape inside a JSON string (of those
\* that occur in the texts).
Escapable == {Quote, Backslash}

RECURSIVE SkipWs(_, _)
SkipWs(cs, p) ==
    IF p <= Len(cs) /\ cs[p] = " " THEN SkipWs(cs, p + 1) ELSE p

\* The rest of a string literal from position p, acc being its value so far.
RECURSIVE ScanString(_, _, _)
ScanString(cs, p, acc) ==
    IF p > Len(cs) THEN Fail
    ELSE IF cs[p] = Quote THEN Parsed(p + 1, StringValue(acc))
    ELSE IF cs[p] = Backslash
         THEN IF p + 1 <= Len(cs) /\ cs[p + 1] \in Escapable
              THEN ScanString(cs, p + 2, Append(acc, cs[p + 1]))
              ELSE Fail
    ELSE ScanString(cs, p + 1, Append(acc, cs[p]))

RECURSIVE ParseValue(_, _)
RECURSIVE ParseMembers(_, _, _)
RECURSIVE ParseItems(_, _, _)
\* The members of an object from position p (after "{" or ","), up to "}".
ParseMembers(cs, p, acc) ==
    LET q == SkipWs(cs, p)
        k == IF q <= Len(cs) /\ cs[q] = Quote THEN ScanString(cs, q + 1, << >>) ELSE Fail
        c == SkipWs(cs, k.next)
        v == IF k.ok /\ c <= Len(cs) /\ cs[c] = ":" THEN ParseValue(cs, c + 1) ELSE Fail
        e == SkipWs(cs, v.next)
        ms == Append(acc, Member(k.value.chars, v.value))
    IN IF ~v.ok \/ e > Len(cs) THEN Fail
       ELSE IF cs[e] = "," THEN ParseMembers(cs, e + 1, ms)
       ELSE IF cs[e] = "}" THEN Parsed(e + 1, ObjectValue(ms))
       ELSE Fail

\* The items of an array from position p (after "[" or ","), up to "]".
ParseItems(cs, p, acc) ==
    LET v == ParseValue(cs, p)
        e == SkipWs(cs, v.next)
        ms == Append(acc, Member(<< >>, v.value))
    IN IF ~v.ok \/ e > Len(cs) THEN Fail
       ELSE IF cs[e] = "," THEN ParseItems(cs, e + 1, ms)
       ELSE IF cs[e] = "]" THEN Parsed(e + 1, ArrayValue(ms))
       ELSE Fail

ParseValue(cs, p) ==
    LET q == SkipWs(cs, p)
        r == SkipWs(cs, q + 1)
    IN IF q > Len(cs) THEN Fail
       ELSE IF cs[q] = Quote THEN ScanString(cs, q + 1, << >>)
       ELSE IF cs[q] = "{"
            THEN IF r <= Len(cs) /\ cs[r] = "}" THEN Parsed(r + 1, ObjectValue(<< >>))
                 ELSE ParseMembers(cs, q + 1, << >>)
       ELSE IF cs[q] = "["
            THEN IF r <= Len(cs) /\ cs[r] = "]" THEN Parsed(r + 1, ArrayValue(<< >>))
                 ELSE ParseItems(cs, q + 1, << >>)
       ELSE Fail

\* JSON.parse of a text: ok with the value, or not ok (a SyntaxError).
JSONparseChars(cs) ==
    LET r == ParseValue(cs, 1)
    IN IF r.ok /\ SkipWs(cs, r.next) = Len(cs) + 1
       THEN [ok |-> TRUE, value |-> r.value]
       ELSE [ok |-> FALSE, value |-> Undefined]

\* function tryParseJson(text): the value, or undefined
tryParseJson(text) == JSONparseChars(text)

\* "Unexpected token"
MsgUnexpectedToken ==
    << "U", "n", "e", "x", "p", "e", "c", "t", "e", "d", " ", "t", "o", "k",
       "e", "n" >>

\* The SyntaxError JSON.parse throws.
SyntaxError == [isError |-> TRUE, name |-> "SyntaxError", message |-> MsgUnexpectedToken]

\* ---- the suggestion schema (zod)
Has(v, name) == \E j \in DOMAIN v.items : v.items[j].key = << name >>

\* The value of the last member called name.
Get(v, name) ==
    v.items[SetMax({j \in DOMAIN v.items : v.items[j].key = << name >>})].val

IsString(v, name) == Get(v, name).type = "string"

\* Object.keys(REVISION_ERROR_TYPES)
ErrorTypeNames == {<< "grammar" >>, << "wording" >>, << "phrasing" >>}

\* z.enum(['high', 'medium', 'low', 'very low'])
SeverityNames == {<< "high" >>, << "medium" >>, << "low" >>, << "very", " ", "low" >>}

\* The keys of the schema, in its order.
SchemaKeys == << "key", "section", "original", "suggested", "reason", "type", "severity" >>

\* suggestionSchema.safeParse(object).success, for one suggestion object
SuggestionSuccess(v) ==
    /\ v.type = "object"
    /\ \A name \in {"key", "original", "suggested", "reason", "type"} :
          Has(v, name) /\ IsString(v, name)
    /\ Get(v, "type").chars \in ErrorTypeNames
    /\ Has(v, "section") => IsString(v, "section")
    /\ Has(v, "severity") =>
          IsString(v, "severity") /\ Get(v, "severity").chars \in SeverityNames

\* parsed.data: the members the schema knows, unknown keys stripped.
RECURSIVE SuggestionMembers(_, _)
SuggestionMembers(v, j) ==
    IF j > Len(SchemaKeys) THEN << >>
    ELSE (IF Has(v, SchemaKeys[j])
          THEN << Member(<< SchemaKeys[j] >>, Get(v, SchemaKeys[j])) >>
          ELSE << >>) \o SuggestionMembers(v, j + 1)

SuggestionData(v) == ObjectValue(SuggestionMembers(v, 1))

\* z.array(z.object(...)).safeParse(value): success and data
ArraySuccess(v) ==
    /\ v.type = "array"
    /\ \A j \in DOMAIN v.items : SuggestionSuccess(v.items[j].val)

ArrayData(v) == [j \in DOMAIN v.items |-> SuggestionData(v.items[j].val)]

\* /\[[\s\S]*]/.exec(result.text): leftmost, greedy: from the first "[" to
\* the last "]" after it; << >> stands for null.
arrayMatch(text) ==
    LET opens == {j \in DOMAIN text : text[j] = "["}
        closes == {j \in DOMAIN text : text[j] = "]" /\ j > SetMin(opens)}
    IN IF opens = {} THEN << >>
       ELSE IF closes = {} THEN << >>
       ELSE SubSeq(text, SetMin(opens), SetMax(closes))

\* ---- the answers of the model
\* {"a":"b"}
SimpleItem ==
    << "{", Quote, "a", Quote, ":", Quote, "b", Quote, "}" >>

\* {"a":{"b":"c"}}
NestedItem ==
    << "{", Quote, "a", Quote, ":", "{", Quote, "b", Quote, ":", Quote, "c",
       Quote, "}", "}" >>

\* {"a":"}[{\"\\"}: braces, brackets, an escaped quote and a doubled
\* backslash before the closing quote, all inside one string literal
StringItem ==
    << "{", Quote, "a", Quote, ":", Quote, "}", "[", "{", Backslash, Quote,
       Backslash, Backslash, Quote, "}" >>

\* {"a":}: brace-balanced, but no JSON
BrokenItem ==
    << "{", Quote, "a", Quote, ":", "}" >>

\* {"key":"k","original":"o","suggested":"s","reason":"r","type":"grammar"}
SuggestionItem ==
    << "{", Quote, "key", Quote, ":", Quote, "k", Quote, ",",
       Quote, "original", Quote, ":", Quote, "o", Quote, ",",
       Quote, "suggested", Quote, ":", Quote, "s", Quote, ",",
       Quote, "reason", Quote, ":", Quote, "r", Quote, ",",
       Quote, "type", Quote, ":", Quote, "grammar", Quote, "}" >>

\* a bare word, which is no JSON value
WordItem ==
    << "none" >>

Items == {SimpleItem, NestedItem, StringItem, BrokenItem, SuggestionItem, WordItem}

\* The lists of at most n items.
RECURSIVE ItemLists(_)
ItemLists(n) ==
    IF n = 0 THEN {<< >>}
    ELSE ItemLists(n - 1) \cup
         {Append(l, it) : l \in {l \in ItemLists(n - 1) : Len(l) = n - 1}, it \in Items}

\* item, item, ...
RECURSIVE Joined(_)
Joined(l) ==
    IF l = << >> THEN << >>
    ELSE IF Len(l) = 1 THEN l[1]
    ELSE l[1] \o << ",", " " >> \o Joined(Tail(l))

\* [item, item, ...]
ArrayText(l) == << "[" >> \o Joined(l) \o << "]" >>

\* What the model writes before the array: nothing; prose with braces and a
\* backslash; prose with a quote character (5" ).
Preambles ==
    { << >>,
      << "Note", " ", "{", "x", "}", Backslash, " " >>,
      << "5", Quote, " " >> }

\* What the model writes after the array: nothing, or prose with brackets.
Postambles ==
    { << >>,
      << " ", "see", " ", "[", "docs", "]" >> }

\* ---- parseStreamingJsonArray
\* The scanner's variables, and what the step yielded.
Scan(a, d, s, e, c, y) ==
    [inArray |-> a, depth |-> d, inString |-> s, escaped |-> e,
     currentObject |-> c, yield |-> y]

\* if (depth > 0) currentObject += char
Keep(st, char) ==
    IF st.depth > 0 THEN Append(st.currentObject, char) ELSE st.currentObject

\* A faulty scanner without the escape state: a backslash is an ordinary
\* character of a string.
consumeWithoutEscape(st, char) ==
    IF char = Quote
    THEN Scan(st.inArray, st.depth, ~st.inString, FALSE, Keep(st, char), << >>)
    ELSE IF st.inString
    THEN Scan(st.inArray, st.depth, st.inString, FALSE, Keep(st, char), << >>)
    ELSE IF char = "[" /\ ~st.inArray
    THEN Scan(TRUE, st.depth, st.inString, FALSE, st.currentObject, << >>)
    ELSE IF ~st.inArray
    THEN Scan(st.inArray, st.depth, st.inString, FALSE, st.currentObject, << >>)
    ELSE IF char = "{"
    THEN Scan(st.inArray, st.depth + 1, st.inString, FALSE,
              Append(st.currentObject, char), << >>)
    ELSE IF char = "}"
    THEN IF st.depth - 1 # 0
         THEN Scan(st.inArray, st.depth - 1, st.inString, FALSE,
                   Append(st.currentObject, char), << >>)
         ELSE Scan(st.inArray, 0, st.inString, FALSE, << >>,
                   IF tryParseJson(Append(st.currentObject, char)).ok
                   THEN << tryParseJson(Append(st.currentObject, char)).value >>
                   ELSE << >>)
    ELSE Scan(st.inArray, st.depth, st.inString, FALSE, Keep(st, char), << >>)

\* The body of for (const char of chunk): one character consumed.
consume(st, char) ==
    IF st.escaped
    THEN Scan(st.inArray, st.depth, st.inString, FALSE, Keep(st, char), << >>)
    ELSE IF char = Backslash /\ st.inString
    THEN Scan(st.inArray, st.depth, st.inString, TRUE, Keep(st, char), << >>)
    ELSE IF char = Quote
    THEN Scan(st.inArray, st.depth, ~st.inString, st.escaped, Keep(st, char), << >>)
    ELSE IF st.inString
    THEN Scan(st.inArray, st.depth, st.inString, st.escaped, Keep(st, char), << >>)
    ELSE IF char = "[" /\ ~st.inArray
    THEN Scan(TRUE, st.depth, st.inString, st.escaped, st.currentObject, << >>)
    ELSE IF ~st.inArray
    THEN Scan(st.inArray, st.depth, st.inString, st.escaped, st.currentObject, << >>)
    ELSE IF char = "{"
    THEN Scan(st.inArray, st.depth + 1, st.inString, st.escaped,
              Append(st.currentObject, char), << >>)
    ELSE IF char = "}"
    THEN IF st.depth - 1 # 0
         THEN Scan(st.inArray, st.depth - 1, st.inString, st.escaped,
                   Append(st.currentObject, char), << >>)
         ELSE Scan(st.inArray, 0, st.inString, st.escaped, << >>,
                   IF tryParseJson(Append(st.currentObject, char)).ok
                   THEN << tryParseJson(Append(st.currentObject, char)).value >>
                   ELSE << >>)
    ELSE Scan(st.inArray, st.depth, st.inString, st.escaped, Keep(st, char), << >>)

\* let inArray = false; let depth = 0; let inString = false; ...
InitialScan == Scan(FALSE, 0, FALSE, FALSE, << >>, << >>)

\* A faulty chunk loop that starts every chunk outside of any string.
ChunkStartResets(st) ==
    Scan(st.inArray, st.depth, FALSE, FALSE, st.currentObject, << >>)

\* for await (const chunk of textStream): the scanner's variables live
\* outside the loop, a new chunk leaves them as they are.
ChunkStart(st) ==
    Scan(st.inArray, st.depth, st.inString, st.escaped, st.currentObject, << >>)

\* What a model invocation resolved with: a response text (free-text
\* translators) or a structured output (core); NoResponse when none is held.
NoResponse == [kind |-> "none", text |-> << >>, out |-> NoOutput]

TextOf(text) == [kind |-> "text", text |-> text, out |-> NoOutput]

OutputOf(out) == [kind |-> "output", text |-> << >>, out |-> out]

\* ------------------------------------------------------------------- state
VARIABLES
    impl,           \* which orchestrator runs
    entries,        \* const entries = Object.entries(messages)
    total,          \* const total = entries.length
    pc,             \* "loop", "await", "sleep", "progress", "done", "thrown"
    i,              \* the loop variable of the batch loop
    batch,          \* const batch = entries.slice(i, i + batchSize)
    attempt,        \* the loop variable of withRetry
    lastError,      \* let lastError of the CLI's withRetry (NoError elsewhere)
    caught,         \* the value the last failed model invocation threw
    response,       \* what the model answered for the batch being reconciled
    retried,        \* the failed invocations that were retried, in the whole call
    inflight,       \* the model invocations that are outstanding
    translated,     \* the accumulator of the translators
    suggestions,    \* the accumulator of reviseMessages
    processed,      \* let processed = 0
    progressCalls,  \* the calls of onProgress so far, in order
    invocations,    \* the model invocations made so far
    batchCalls,     \* the invocations made by the running withRetry call
    rateLimited,    \* the rate-limit failures caught by the running withRetry call
    slept,          \* the backoff delays of the running withRetry call
    thrown,         \* the error the call rejected with
    batches,        \* the batches built so far, in order
    reconciled,     \* per reconciled batch: fallback taken, object merged
    variant,        \* "adviseWebsite", "adviseWebsiteStream", or "none"
    answer,         \* the whole text the model answers an advising call with
    preamble,       \* the part of answer before its array
    items,          \* the items of the array of answer, as written
    apc,            \* "await", "stream", "ended", "resolved", "rejected", "idle"
    pos,            \* the characters of answer the scanner has consumed
    chunkEmpty,     \* no character of the current chunk is consumed yet
    inArray,        \* let inArray
    depth,          \* let depth
    inString,       \* let inString
    escaped,        \* let escaped
    currentObject,  \* let currentObject
    yielded,        \* what parseStreamingJsonArray yielded so far
    yieldedAt,      \* for each yield, the position of the character consumed last
    emitted,        \* what adviseWebsiteStream yielded so far
    advised,        \* what adviseWebsite resolved with
    rejection       \* what the advising call rejected with

orchVars ==
    << impl, entries, total, pc, i, batch, attempt, lastError, caught, response,
       retried, inflight,
       translated, suggestions, processed, progressCalls, invocations,
       batchCalls, rateLimited, slept, thrown, batches, reconciled >>

adviseVars ==
    << variant, answer, preamble, items, apc, pos, chunkEmpty, inArray, depth,
       inString, escaped, currentObject, yielded, yieldedAt, emitted, advised,
       rejection >>

\* ---- verifyApiKey
VARIABLES
    apiKey,         \* the key verifyApiKey is called with
    provider,       \* the provider it is called with
    vpc,            \* "called", "fetching", "settled", or "idle"
    probe,          \* the probe request of the call and how it ended
    outcome,        \* how the promise of the call settled
    verifications   \* the calls of verifyApiKey made so far

verifyVars == << apiKey, provider, vpc, probe, outcome, verifications >>

\* No request is sent.
NoProbe == [sent |-> FALSE, to |-> "none", status |-> 0, threw |-> FALSE]

\* A promise that is not settled, that resolved with a value, that rejected.
Pending == [settled |-> "pending", value |-> FALSE, error |-> NoError]

Resolve(value) == [settled |-> "resolved", value |-> value, error |-> NoError]

Reject(error) == [settled |-> "rejected", value |-> FALSE, error |-> error]

\* No call of verifyApiKey is made.
VerifyIdle ==
    /\ apiKey = << >>
    /\ provider = "none"
    /\ vpc = "idle"
    /\ probe = NoProbe
    /\ outcome = Pending
    /\ verifications = 0

\* ---- prompt building
VARIABLES
    builder,        \* whose prompts are built: "core", "revise", "translator"
    targetLanguage, \* option targetLanguage
    errorTypes,     \* option errorTypes
    context,        \* option context
    messages,       \* Object.entries(messages)
    systemPrompt,   \* const systemPrompt
    prompt,         \* the prompt of the current batch
    promptBatch,    \* the current batch
    promptIndex,    \* let i of the batch loop
    promptsSent,    \* the number of prompts handed to the model so far
    prompts,        \* the prompts handed to the model so far, in order
    bpc             \* "start", "loop", "sent", "done", or "idle"

promptVars ==
    << builder, targetLanguage, errorTypes, context, messages, systemPrompt,
       prompt, promptBatch, promptIndex, promptsSent, prompts, bpc >>

\* No prompt is built.
PromptIdle ==
    /\ builder = "none"
    /\ targetLanguage = << >>
    /\ errorTypes = << >>
    /\ context = << >>
    /\ messages = << >>
    /\ systemPrompt = << >>
    /\ prompt = << >>
    /\ promptBatch = << >>
    /\ promptIndex = 0
    /\ promptsSent = 0
    /\ prompts = << >>
    /\ bpc = "idle"

\* ---- GET /api/sitemap
VARIABLES
    analyzedUrl,    \* requestUrl.searchParams.get('url')
    gpc,            \* "called", "fetching", "subs", "responded", or "idle"
    subSitemapUrls, \* const subSitemapUrls
    results,        \* what the fetchSitemapUrls calls of Promise.all resolved with
    pending,        \* the indices of subSitemapUrls not answered yet
    candidates,     \* the URLs handed to the last call of dedup
    failure,        \* "none", or what failed: "url", "threw", "not ok"
    sitemapResponse \* the response of GET

sitemapVars ==
    << analyzedUrl, gpc, subSitemapUrls, results, pending, candidates,
       failure, sitemapResponse >>

\* No response yet; Response.json({urls}).
NoSitemapResponse == [kind |-> "none", urls |-> << >>]

JsonUrls(urls) == [kind |-> "json", urls |-> urls]

\* An error response, or a rejected handler.
ErrorResponse == [kind |-> "error", urls |-> << >>]

\* GET /api/sitemap is not requested.
SitemapIdle ==
    /\ analyzedUrl = << >>
    /\ gpc = "idle"
    /\ subSitemapUrls = << >>
    /\ results = << >>
    /\ pending = {}
    /\ candidates = << >>
    /\ failure = "none"
    /\ sitemapResponse = NoSitemapResponse

\* ---- POST /api/advise
VARIABLES
    postRequest,    \* what the request carries: API key configured, body, URL
    hpc,            \* "called", "streaming", "closed", "failed", "answered", "threw", "idle"
    postResponse,   \* the status of the response, 0 while there is none
    streamState,    \* the ReadableStream: "none", "readable", "closed", "cancelled"
    chunks,         \* the lines enqueued so far
    closeCalls,     \* the calls of controller.close() so far
    generator,      \* adviseWebsiteStream: "none", "running", "done", "thrown", "returned"
    partialText,    \* the parser holds the text of an unfinished element
    elementsRead,   \* the elements of the model's array begun so far
    suggestionsOut, \* the suggestions adviseWebsiteStream yielded so far
    streamThrew,    \* what the suggestion stream threw
    aborted,        \* the client aborted the request
    sinceAbort      \* what happened for the request after the abort

postVars ==
    << postRequest, hpc, postResponse, streamState, chunks, closeCalls, generator,
       partialText, elementsRead, suggestionsOut, streamThrew, aborted, sinceAbort >>

\* A request: process.env['GOOGLE_API_KEY'] set, body is JSON, and what the
\* url of the body is: "missing" (no string), "invalid", "valid".
PostRequest(k, b, u) == [apiKey |-> k, json |-> b, url |-> u]

\* What body.url may be: no string at all (the field is missing, or the body
\* is no object), a string that new URL rejects, a string it accepts.
BodyUrls == {"missing", "invalid", "valid"}

\* Nothing has happened since the abort.
NothingSince == [read |-> 0, yielded |-> 0, enqueued |-> 0]

\* POST /api/advise is not requested.
PostIdle ==
    /\ postRequest = PostRequest(FALSE, FALSE, "missing")
    /\ hpc = "idle"
    /\ postResponse = 0
    /\ streamState = "none"
    /\ chunks = << >>
    /\ closeCalls = 0
    /\ generator = "none"
    /\ partialText = FALSE
    /\ elementsRead = 0
    /\ suggestionsOut = << >>
    /\ streamThrew = NoError
    /\ aborted = FALSE
    /\ sinceAbort = NothingSince

\* ---- two concurrent calls of translateMessages
VARIABLES
    pair,           \* for each of the two calls, its local variables
    accumulators,   \* the objects created by const translated = {}
    modelLog,       \* for each call, the outcomes of its model invocations
    overlapped      \* a call ran while the other was suspended in mid-call

pairVars == << pair, accumulators, modelLog, overlapped >>

\* translateMessages is not called concurrently.
PairIdle ==
    /\ pair = << >>
    /\ accumulators = << >>
    /\ modelLog = << >>
    /\ overlapped = FALSE

\* ---- the web client (App)
VARIABLES
    loading,        \* const [loading, setLoading] = useState(false)
    issues,         \* suggestions: NoList for undefined, else their number
    errorBox,       \* error: "none" for undefined, else which message
    sitemapLinks,   \* sitemapUrls.length > 0: the links are on the page
    sitemapFetches, \* the fetches of /api/sitemap that are outstanding
    requests,       \* the calls of handleSubmit, in order
    abortRef        \* abortRef.current: the call whose controller it holds, or 0

clientVars ==
    << loading, issues, errorBox, sitemapLinks, sitemapFetches, requests, abortRef >>

\* useState<RevisionSuggestion[] | undefined>(): undefined
NoList == -1

\* The page is not open.
ClientIdle ==
    /\ loading = FALSE
    /\ issues = NoList
    /\ errorBox = "none"
    /\ sitemapLinks = FALSE
    /\ sitemapFetches = 0
    /\ requests = << >>
    /\ abortRef = 0

\* ---- all the variables of the web functions
webVars == << verifyVars, promptVars, sitemapVars, postVars, pairVars, clientVars >>

WebIdle ==
    /\ VerifyIdle
    /\ PromptIdle
    /\ SitemapIdle
    /\ PostIdle
    /\ PairIdle
    /\ ClientIdle

vars == << orchVars, adviseVars, webVars >>

\* No advising call is made.
AdviseIdle ==
    /\ variant = "none"
    /\ answer = << >>
    /\ preamble = << >>
    /\ items = << >>
    /\ apc = "idle"
    /\ pos = 0
    /\ chunkEmpty = TRUE
    /\ inArray = FALSE
    /\ depth = 0
    /\ inString = FALSE
    /\ escaped = FALSE
    /\ currentObject = << >>
    /\ yielded = << >>
    /\ yieldedAt = << >>
    /\ emitted = << >>
    /\ advised = << >>
    /\ rejection = NoError

\* A call of translateMessages / reviseMessages up to its batch loop.
Init ==
    /\ impl \in Implementations
    /\ \E count \in EntryCounts(BatchSizeOf(impl)) :
          /\ entries = EntriesOf(count)
          /\ total = count
    /\ pc = "loop"
    /\ i = 0
    /\ batch = << >>
    /\ attempt = 0
    /\ lastError = NoError
    /\ caught = NoError
    /\ response = NoResponse
    /\ retried = 0
    /\ inflight = {}
    /\ translated = << >>
    /\ suggestions = << >>
    /\ processed = 0
    /\ progressCalls = << >>
    /\ invocations = 0
    /\ batchCalls = 0
    /\ rateLimited = 0
    /\ slept = << >>
    /\ thrown = NoError
    /\ batches = << >>
    /\ reconciled = << >>
    /\ AdviseIdle
    /\ WebIdle

\* A faulty dispatch that does not await the invocation it made.
PcWithoutAwait == "loop"

\* The position the call is in once it has dispatched a model invocation:
\* the await of the invocation's promise.
PcAfterDispatch == "await"

\* A faulty loop step, one short of the batch size.
NextIndexOverlaps(idx, B) == idx + B - 1

\* The index of the next batch.
NextIndex(idx, B) == idx + B

\* A faulty loop condition that lets the loop body run once past the end.
LoopConditionInclusive(idx, n) == idx <= n

\* i < entries.length
LoopCondition(idx, n) == idx < n

\* attempt++ of the loop of withRetry.
NextAttempt(att) == att + 1

\* A faulty retry state that outlives the withRetry call: the attempt index a
\* batch starts with is the one the batch before it ended with.
InitialAttemptCarried(previous) == previous

\* let attempt = 0: every call of withRetry starts its own attempt index.
InitialAttempt(previous) == 0

\* A faulty count that assigns the batch length instead of adding it.
AddProcessedReplaces(p, b) == Len(b)

\* A faulty count that adds the batch size, whatever the batch holds.
AddProcessedAddsBatchSize(p, b) == p + BatchSizeOf(impl)

\* processed += batch.length
AddProcessed(p, b) == p + Len(b)

\* One outstanding model invocation: the batch it is for and its number.
Invocation(idx, call) == [index |-> idx, call |-> call]

\* Loop head with entries left: build the batch and its prompt, and make the
\* first invocation for it (through withRetry in the free-text translators).
Dispatch ==
    /\ pc = "loop"
    /\ LoopCondition(i, Len(entries))
    /\ batch' = slice(entries, i, i + BatchSizeOf(impl))
    /\ batches' = Append(batches, batch')
    /\ attempt' = InitialAttempt(attempt)
    /\ lastError' = IF impl = "cli" THEN InitialLastError ELSE NoError
    /\ caught' = NoError
    /\ rateLimited' = 0
    /\ slept' = << >>
    /\ batchCalls' = 1
    /\ invocations' = invocations + 1
    /\ inflight' = inflight \cup {Invocation(i, invocations + 1)}
    /\ pc' = PcAfterDispatch
    /\ UNCHANGED << impl, entries, total, i, response, retried, translated,
                    suggestions, processed, progressCalls, thrown, reconciled >>
    /\ UNCHANGED << adviseVars, webVars >>

\* Loop head with no entries left: return the accumulator.
Return ==
    /\ pc = "loop"
    /\ ~LoopCondition(i, Len(entries))
    /\ pc' = "done"
    /\ UNCHANGED << impl, entries, total, i, batch, attempt, lastError, caught,
                    response, retried, inflight, translated, suggestions,
                    processed, progressCalls, invocations, batchCalls,
                    rateLimited, slept, thrown, batches, reconciled >>
    /\ UNCHANGED << adviseVars, webVars >>

\* The invocation of a free-text translator resolves with a text: withRetry
\* returns it and the batch is reconciled.
TextResponse ==
    /\ pc = "await"
    /\ impl \in RetryImpls
    /\ \E text \in ResponseTexts(batch, entries) :
          /\ response' = TextOf(text)
          /\ translated' = ReconcileText(translated, batch, text)
          /\ reconciled' = Append(reconciled,
                                  [fallback |-> UsesFallback(text),
                                   value |-> IF UsesFallback(text) THEN << >>
                                             ELSE JSONparse(jsonMatch(text)).value])
    /\ inflight' = {r \in inflight : r.index # i}
    /\ lastError' = NoError
    /\ caught' = NoError
    /\ pc' = "progress"
    /\ UNCHANGED << impl, entries, total, i, batch, attempt, retried, suggestions,
                    processed, progressCalls, invocations, batchCalls,
                    rateLimited, slept, thrown, batches >>
    /\ UNCHANGED << adviseVars, webVars >>

\* generateText of the core translator resolves.
OutputResponse ==
    /\ pc = "await"
    /\ impl = "core"
    /\ \E out \in StructuredOutputs(batch, entries) :
          /\ response' = OutputOf(out)
          /\ translated' = ReconcileOutput(translated, out)
          /\ reconciled' = Append(reconciled, [fallback |-> FALSE, value |-> out.value])
    /\ inflight' = {r \in inflight : r.index # i}
    /\ pc' = "progress"
    /\ UNCHANGED << impl, entries, total, i, batch, attempt, lastError, caught,
                    retried, suggestions, processed, progressCalls, invocations,
                    batchCalls, rateLimited, slept, thrown, batches >>
    /\ UNCHANGED << adviseVars, webVars >>

\* generateText of reviseMessages resolves.
RevisionResponse ==
    /\ pc = "await"
    /\ impl = "revise"
    /\ \E out \in RevisionOutputs(batch) :
          /\ response' = OutputOf(out)
          /\ suggestions' = ReconcileRevision(suggestions, out)
          /\ reconciled' = Append(reconciled, [fallback |-> FALSE, value |-> << >>])
    /\ inflight' = {r \in inflight : r.index # i}
    /\ pc' = "progress"
    /\ UNCHANGED << impl, entries, total, i, batch, attempt, lastError, caught,
                    retried, translated, processed, progressCalls, invocations,
                    batchCalls, rateLimited, slept, thrown, batches >>
    /\ UNCHANGED << adviseVars, webVars >>

\* processed += batch.length; onProgress?.(processed, total); i += batchSize
Progress ==
    /\ pc = "progress"
    /\ processed' = AddProcessed(processed, batch)
    /\ progressCalls' = Append(progressCalls, << processed', total >>)
    /\ i' = NextIndex(i, BatchSizeOf(impl))
    /\ response' = NoResponse
    /\ pc' = "loop"
    /\ UNCHANGED << impl, entries, total, batch, attempt, lastError, caught,
                    retried, inflight, translated, suggestions, invocations, batchCalls,
                    rateLimited, slept, thrown, batches, reconciled >>
    /\ UNCHANGED << adviseVars, webVars >>

\* The invocation of a free-text translator rejects: the catch clause of
\* withRetry rethrows, throws RateLimitError, or starts the backoff sleep.
AttemptFails ==
    /\ pc = "await"
    /\ impl \in RetryImpls
    /\ \E error \in ProviderErrors :
          /\ lastError' = IF impl = "cli" THEN error ELSE lastError
          /\ caught' = error
          /\ rateLimited' = IF isRateLimited(error) THEN rateLimited + 1 ELSE rateLimited
          /\ IF CatchOf(impl, error, attempt).do = "throw"
             THEN /\ thrown' = CatchOf(impl, error, attempt).error
                  /\ pc' = "thrown"
                  /\ slept' = slept
                  /\ retried' = retried
             ELSE /\ thrown' = thrown
                  /\ pc' = "sleep"
                  /\ retried' = retried + 1
                  /\ slept' = Append(slept, CatchOf(impl, error, attempt).delay)
    /\ inflight' = {r \in inflight : r.index # i}
    /\ UNCHANGED << impl, entries, total, i, batch, attempt, response, translated,
                    suggestions, processed, progressCalls, invocations,
                    batchCalls, batches, reconciled >>
    /\ UNCHANGED << adviseVars, webVars >>

\* The backoff timer fires: attempt++, and the loop of withRetry invokes the
\* model again.
BackoffElapsed ==
    /\ pc = "sleep"
    /\ attempt' = NextAttempt(attempt)
    /\ IF LoopOf(impl, attempt')
       THEN /\ inflight' = inflight \cup {Invocation(i, invocations + 1)}
            /\ invocations' = invocations + 1
            /\ batchCalls' = batchCalls + 1
            /\ pc' = "await"
            /\ thrown' = thrown
       ELSE /\ thrown' = AfterLoopOf(impl, lastError)
            /\ pc' = "thrown"
            /\ UNCHANGED << inflight, invocations, batchCalls >>
    /\ UNCHANGED << impl, entries, total, i, batch, lastError, caught, response, retried,
                    translated, suggestions, processed, progressCalls,
                    rateLimited, slept, batches, reconciled >>
    /\ UNCHANGED << adviseVars, webVars >>

\* generateText of a core orchestrator rejects: the error propagates.
GenerateTextFails ==
    /\ pc = "await"
    /\ impl \in {"core", "revise"}
    /\ \E error \in ProviderErrors :
          /\ thrown' = error
          /\ caught' = error
    /\ inflight' = {r \in inflight : r.index # i}
    /\ pc' = "thrown"
    /\ UNCHANGED << impl, entries, total, i, batch, attempt, lastError, response, retried, translated,
                    suggestions, processed, progressCalls, invocations,
                    batchCalls, rateLimited, slept, batches, reconciled >>
    /\ UNCHANGED << adviseVars, webVars >>

Next ==
    \/ Dispatch
    \/ Return
    \/ TextResponse
    \/ OutputResponse
    \/ RevisionResponse
    \/ Progress
    \/ AttemptFails
    \/ BackoffElapsed
    \/ GenerateTextFails

Spec == Init /\ [][Next]_vars

\* ---------------------------------------------------------------- advising
\* No orchestration call is made.
OrchIdle ==
    /\ impl = "none"
    /\ entries = << >>
    /\ total = 0
    /\ pc = "idle"
    /\ i = 0
    /\ batch = << >>
    /\ attempt = 0
    /\ lastError = NoError
    /\ caught = NoError
    /\ response = NoResponse
    /\ retried = 0
    /\ inflight = {}
    /\ translated = << >>
    /\ suggestions = << >>
    /\ processed = 0
    /\ progressCalls = << >>
    /\ invocations = 0
    /\ batchCalls = 0
    /\ rateLimited = 0
    /\ slept = << >>
    /\ thrown = NoError
    /\ batches = << >>
    /\ reconciled = << >>

\* An advising call: adviseWebsite awaits generateText, adviseWebsiteStream
\* iterates over the text stream; the model's answer is a preamble, an array
\* of items (or no array), and a postamble.
InitAdvise ==
    /\ OrchIdle
    /\ WebIdle
    /\ variant \in {"adviseWebsite", "adviseWebsiteStream"}
    /\ preamble \in Preambles
    /\ \E withArray \in BOOLEAN, post \in Postambles :
          /\ items \in (IF withArray THEN ItemLists(MaxItems) ELSE {<< >>})
          /\ answer = preamble \o (IF withArray THEN ArrayText(items) ELSE << >>) \o post
    /\ apc = IF variant = "adviseWebsite" THEN "await" ELSE "stream"
    /\ pos = 0
    /\ chunkEmpty = TRUE
    /\ inArray = InitialScan.inArray
    /\ depth = InitialScan.depth
    /\ inString = InitialScan.inString
    /\ escaped = InitialScan.escaped
    /\ currentObject = InitialScan.currentObject
    /\ yielded = << >>
    /\ yieldedAt = << >>
    /\ emitted = << >>
    /\ advised = << >>
    /\ rejection = NoError

\* generateText of adviseWebsite resolves with the text: the array region is
\* matched, parsed and validated.
AdviseResolves ==
    /\ variant = "adviseWebsite"
    /\ apc = "await"
    /\ IF arrayMatch(answer) = << >>
       THEN /\ advised' = << >>
            /\ apc' = "resolved"
            /\ rejection' = rejection
       ELSE IF ~JSONparseChars(arrayMatch(answer)).ok
       THEN /\ rejection' = SyntaxError
            /\ apc' = "rejected"
            /\ advised' = advised
       ELSE /\ advised' = IF ArraySuccess(JSONparseChars(arrayMatch(answer)).value)
                          THEN ArrayData(JSONparseChars(arrayMatch(answer)).value)
                          ELSE << >>
            /\ apc' = "resolved"
            /\ rejection' = rejection
    /\ UNCHANGED << variant, answer, preamble, items, pos, chunkEmpty, inArray, depth,
                    inString, escaped, currentObject, yielded, yieldedAt, emitted >>
    /\ UNCHANGED << orchVars, webVars >>

\* generateText of adviseWebsite rejects: the error propagates.
AdviseModelFails ==
    /\ variant = "adviseWebsite"
    /\ apc = "await"
    /\ \E error \in ProviderErrors : rejection' = error
    /\ apc' = "rejected"
    /\ UNCHANGED << variant, answer, preamble, items, pos, chunkEmpty, inArray, depth,
                    inString, escaped, currentObject, yielded, yieldedAt, emitted,
                    advised >>
    /\ UNCHANGED << orchVars, webVars >>

\* The scanner's variables as one record.
ScanState == Scan(inArray, depth, inString, escaped, currentObject, << >>)

\* The text stream delivers its next chunk (which may prove empty).
StreamChunk ==
    /\ variant = "adviseWebsiteStream"
    /\ apc = "stream"
    /\ inArray' = ChunkStart(ScanState).inArray
    /\ depth' = ChunkStart(ScanState).depth
    /\ inString' = ChunkStart(ScanState).inString
    /\ escaped' = ChunkStart(ScanState).escaped
    /\ currentObject' = ChunkStart(ScanState).currentObject
    /\ chunkEmpty' = TRUE
    /\ UNCHANGED << variant, answer, preamble, items, apc, pos, yielded, yieldedAt,
                    emitted, advised, rejection >>
    /\ UNCHANGED << orchVars, webVars >>

\* The next character of the current chunk is consumed; an object the
\* scanner yields is validated and, if valid, yielded by adviseWebsiteStream.
StreamChar ==
    /\ variant = "adviseWebsiteStream"
    /\ apc = "stream"
    /\ pos < Len(answer)
    /\ pos' = pos + 1
    /\ chunkEmpty' = FALSE
    /\ LET st == consume(ScanState, answer[pos + 1])
       IN /\ inArray' = st.inArray
          /\ depth' = st.depth
          /\ inString' = st.inString
          /\ escaped' = st.escaped
          /\ currentObject' = st.currentObject
          /\ yielded' = yielded \o st.yield
          /\ yieldedAt' = IF st.yield # << >> THEN Append(yieldedAt, pos + 1)
                          ELSE yieldedAt
          /\ emitted' = IF st.yield # << >>
                        THEN IF SuggestionSuccess(st.yield[1])
                             THEN Append(emitted, SuggestionData(st.yield[1]))
                             ELSE emitted
                        ELSE emitted
    /\ UNCHANGED << variant, answer, preamble, items, apc, advised, rejection >>
    /\ UNCHANGED << orchVars, webVars >>

\* The text stream ends: both generators complete.
StreamEnds ==
    /\ variant = "adviseWebsiteStream"
    /\ apc = "stream"
    /\ pos = Len(answer)
    /\ apc' = "ended"
    /\ UNCHANGED << variant, answer, preamble, items, pos, chunkEmpty, inArray, depth,
                    inString, escaped, currentObject, yielded, yieldedAt, emitted,
                    advised, rejection >>
    /\ UNCHANGED << orchVars, webVars >>

NextAdvise ==
    \/ AdviseResolves
    \/ AdviseModelFails
    \/ StreamChunk
    \/ StreamChar
    \/ StreamEnds

SpecAdvise == InitAdvise /\ [][NextAdvise]_vars

\* ------------------------------------ advising: answers that are cut or odd
\* A stray closing brace where an element of the array is expected.
StrayBrace == << "}" >>

\* [{"a":"b"}] as an element: an array nested directly in the array.
NestedArrayItem == ArrayText(<< SimpleItem >>)

\* The text stream ends early: the array of l, cut before the closing brace
\* of its last element.
TruncatedText(l) == SubSeq(ArrayText(l), 1, Len(ArrayText(l)) - 2)

\* An object written after the closing bracket of the array.
TextWithTrailingObject == ArrayText(<< SimpleItem >>) \o << " " >> \o SuggestionItem

\* The answers: whole, cut in the last element, with a stray brace, with an
\* object after the array, with a nested array.
ScanCases ==
    { [items |-> << StringItem, SimpleItem >>,
       answer |-> ArrayText(<< StringItem, SimpleItem >>)],
      [items |-> << StringItem, SimpleItem >>,
       answer |-> TruncatedText(<< StringItem, SimpleItem >>)],
      [items |-> << SuggestionItem, NestedItem >>,
       answer |-> TruncatedText(<< SuggestionItem, NestedItem >>)],
      [items |-> << StrayBrace, SimpleItem >>,
       answer |-> ArrayText(<< StrayBrace, SimpleItem >>)],
      [items |-> << SimpleItem >>,
       answer |-> TextWithTrailingObject],
      [items |-> << NestedArrayItem >>,
       answer |-> ArrayText(<< NestedArrayItem >>)] }

\* An advising call whose model answers with one of these texts.
InitScan ==
    /\ OrchIdle
    /\ WebIdle
    /\ variant \in {"adviseWebsite", "adviseWebsiteStream"}
    /\ preamble = << >>
    /\ \E case \in ScanCases :
          /\ items = case.items
          /\ answer = case.answer
    /\ apc = IF variant = "adviseWebsite" THEN "await" ELSE "stream"
    /\ pos = 0
    /\ chunkEmpty = TRUE
    /\ inArray = InitialScan.inArray
    /\ depth = InitialScan.depth
    /\ inString = InitialScan.inString
    /\ escaped = InitialScan.escaped
    /\ currentObject = InitialScan.currentObject
    /\ yielded = << >>
    /\ yieldedAt = << >>
    /\ emitted = << >>
    /\ advised = << >>
    /\ rejection = NoError

SpecScan == InitScan /\ [][NextAdvise]_vars

\* ------------------------------------------------------------ verifyApiKey
\* The keys verifyApiKey is called with: the empty string and two others.
ApiKeys == {<< >>, << "sk-1" >>, << "sk-2" >>}

Providers == {"gemini", "openai", "anthropic"}

\* The status codes the probed endpoints answer with.
Statuses == {200, 201, 400, 401, 403, 404, 429, 500}

\* What fetch rejects with.
FetchFailures == {ErrorOf(<< "fetch failed" >>), ThrownString(<< "offline" >>)}

\* The endpoint probed for a provider.
Endpoint(prov) ==
    IF prov = "gemini" THEN "generativelanguage.googleapis.com/v1beta/models"
    ELSE IF prov = "openai" THEN "api.openai.com/v1/models"
    ELSE "api.anthropic.com/v1/messages"

\* return response.status === 200 (gemini, openai); return response.status
\* !== 401 (anthropic)
StatusIsValid(prov, status) ==
    IF prov \in {"gemini", "openai"} THEN status = 200 ELSE status # 401

\* A faulty catch clause that lets the failure of fetch through.
verifyCatchRethrows(error) == Reject(error)

\* catch { return false; }
verifyCatch(error) == Resolve(FALSE)

\* if (!apiKey) return false
KeyIsEmpty(k) == k = << >>

\* The other functions are not called.
VerifyOnly ==
    /\ OrchIdle
    /\ ClientIdle
    /\ PairIdle
    /\ AdviseIdle
    /\ PromptIdle
    /\ SitemapIdle
    /\ PostIdle

InitVerify ==
    /\ VerifyOnly
    /\ apiKey \in ApiKeys
    /\ provider \in Providers
    /\ vpc = "called"
    /\ probe = NoProbe
    /\ outcome = Pending
    /\ verifications = 1

\* verifyApiKey up to its first await: it returns false for an empty key and
\* sends the probe of the provider otherwise.
VerifyStart ==
    /\ vpc = "called"
    /\ IF KeyIsEmpty(apiKey)
       THEN /\ outcome' = Resolve(FALSE)
            /\ vpc' = "settled"
            /\ probe' = probe
       ELSE /\ probe' = [sent |-> TRUE, to |-> Endpoint(provider), status |-> 0,
                         threw |-> FALSE]
            /\ vpc' = "fetching"
            /\ outcome' = outcome
    /\ UNCHANGED << apiKey, provider, verifications >>
    /\ UNCHANGED << orchVars, adviseVars, promptVars, sitemapVars, postVars,
                    pairVars, clientVars >>

\* fetch resolves with a response: the status decides.
ProbeAnswered ==
    /\ vpc = "fetching"
    /\ \E status \in Statuses :
          /\ probe' = [probe EXCEPT !.status = status]
          /\ outcome' = Resolve(StatusIsValid(provider, status))
    /\ vpc' = "settled"
    /\ UNCHANGED << apiKey, provider, verifications >>
    /\ UNCHANGED << orchVars, adviseVars, promptVars, sitemapVars, postVars,
                    pairVars, clientVars >>

\* fetch rejects: the catch clause answers.
ProbeFails ==
    /\ vpc = "fetching"
    /\ \E error \in FetchFailures :
          /\ probe' = [probe EXCEPT !.threw = TRUE]
          /\ outcome' = verifyCatch(error)
    /\ vpc' = "settled"
    /\ UNCHANGED << apiKey, provider, verifications >>
    /\ UNCHANGED << orchVars, adviseVars, promptVars, sitemapVars, postVars,
                    pairVars, clientVars >>

\* The caller verifies another key.
VerifyAgain ==
    /\ vpc = "settled"
    /\ verifications < MaxVerifications
    /\ apiKey' \in ApiKeys
    /\ provider' \in Providers
    /\ vpc' = "called"
    /\ probe' = NoProbe
    /\ outcome' = Pending
    /\ verifications' = verifications + 1
    /\ UNCHANGED << orchVars, adviseVars, promptVars, sitemapVars, postVars,
                    pairVars, clientVars >>

NextVerify ==
    \/ VerifyStart
    \/ ProbeAnswered
    \/ ProbeFails
    \/ VerifyAgain

SpecVerify == InitVerify /\ [][NextVerify]_vars

\* ---------------------------------------------------------- prompt building
\* A prompt is a sequence of pieces of text: the fixed passages of the
\* templates are one piece each, the words of the texts a caller supplies
\* and of the context heading are pieces of their own.
\* The concatenation of f[lo], ..., f[hi].
RECURSIVE FlatRange(_, _, _)
FlatRange(f, lo, hi) ==
    IF lo > hi THEN << >>
    ELSE IF lo = hi THEN f[lo]
    ELSE FlatRange(f, lo, (lo + hi) \div 2) \o FlatRange(f, (lo + hi) \div 2 + 1, hi)

\* 'Product context'
ProductContext == << "Product", " ", "context" >>

\* LANGUAGE_NAMES[targetLanguage] ?? targetLanguage
LanguageName(code) ==
    IF code = << "de" >> THEN << "German" >>
    ELSE IF code = << "fr" >> THEN << "French" >>
    ELSE code

TargetLanguages == {<< "de" >>, << "tlh" >>}

\* The contexts a caller gives: none, a description, a blank.
Contexts == {<< >>, << "A", " ", "food", " ", "delivery", " ", "app" >>, << " " >>}

\* A faulty test that takes a blank context for no context.
TruthyTrimmed(str) == \E k \in DOMAIN str : str[k] # " "

\* if (context): a string is truthy unless it is empty
Truthy(str) == str # << >>

\* One entry of Object.entries(messages).
Entry(k, value) == [key |-> << "key", ToString(k) >>, value |-> value]

Hello == << "Hello" >>

\* 'Say "hi"\now'
Quoted == << "Say", " ", Quote, "hi", Quote, Backslash, "n", "ow" >>

\* The messages a caller gives: their number makes one batch, or two and
\* more; one text holds quotes, one the words 'Product context'.
MessageLists ==
    { << Entry(1, Hello) >>,
      << Entry(1, Hello), Entry(2, Quoted) >>,
      [k \in 1..(batchSize + 1) |->
          Entry(k, IF k = batchSize + 1 THEN ProductContext ELSE Hello)],
      [k \in 1..(TRANSLATION_BATCH_SIZE + 1) |-> Entry(k, Hello)] }

\* The errorTypes a caller gives.
ErrorTypeLists ==
    { << "grammar" >>, << "grammar", "wording", "phrasing" >> }

\* REVISION_ERROR_TYPES[type].description
DescriptionOf(type) ==
    IF type = "grammar" THEN "Grammar or spelling mistakes (critical)"
    ELSE IF type = "wording" THEN "Awkward or incorrect wording (medium)"
    ELSE "Phrases that could be improved (minor)"

\* JSON.stringify of a string: quotes and backslashes are escaped.
StringifyString(str) ==
    << Quote >>
    \o FlatRange([k \in DOMAIN str |->
                     IF str[k] \in {Quote, Backslash} THEN << Backslash, str[k] >>
                     ELSE << str[k] >>], 1, Len(str))
    \o << Quote >>

\* JSON.stringify(Object.fromEntries(batch), null, 2)
StringifyBatch(b) ==
    IF b = << >> THEN << "{}" >>
    ELSE << "{", "\n" >>
         \o FlatRange([k \in DOMAIN b |->
                          << "  " >> \o StringifyString(b[k].key) \o << ":", " " >>
                          \o StringifyString(b[k].value)
                          \o (IF k < Len(b) THEN << ",", "\n" >> ELSE << "\n" >>)],
                      1, Len(b))
         \o << "}" >>

\* The passages of the templates.
TranslatorIntro ==
    "You are a professional translator specializing in software localization. \nTranslate the following UI text from English to "

TranslatorGuidelines ==
    ".\n\nImportant guidelines:\n- Preserve any placeholders like {name}, {count}, {{variable}}, etc.\n- Keep the same tone and formality level\n- Use natural, idiomatic expressions in the target language\n- Maintain any HTML tags or markdown formatting\n- Do not add or remove content, only translate"

EditorIntro ==
    "You are a professional editor and proofreader specializing in software localization content.\nAnalyze the following UI text and find issues that need improvement.\n\nYou should look for these types of issues:\n"

EditorGuidelines ==
    "\n\nImportant guidelines:\n- Only report actual issues, not stylistic preferences\n- Preserve any placeholders like {name}, {count}, {{variable}}, etc.\n- Maintain any HTML tags or markdown formatting\n- Provide clear, actionable suggestions\n- Be concise in your reasoning"

\* `\n\nProduct context for better translations:\n${context}`
TranslationContextSection(ctx) ==
    << "\n\n" >> \o ProductContext \o << " for better translations:", "\n" >> \o ctx

\* `\n\nProduct context for better understanding:\n${context}`
RevisionContextSection(ctx) ==
    << "\n\n" >> \o ProductContext \o << " for better understanding:", "\n" >> \o ctx

\* buildSystemPrompt, and the system prompt of packages/translator
buildSystemPrompt(lang, ctx) ==
    << TranslatorIntro >> \o LanguageName(lang) \o << TranslatorGuidelines >>
    \o (IF Truthy(ctx) THEN TranslationContextSection(ctx) ELSE << >>)

\* errorTypes.map(type => `- ${type}: ${info.description}`).join('\n')
TypeDescriptions(types) ==
    FlatRange([k \in DOMAIN types |->
                  << "- ", types[k], ": ", DescriptionOf(types[k]) >>
                  \o (IF k < Len(types) THEN << "\n" >> ELSE << >>)],
              1, Len(types))

\* buildRevisionSystemPrompt
buildRevisionSystemPrompt(types, ctx) ==
    << EditorIntro >> \o TypeDescriptions(types) \o << EditorGuidelines >>
    \o (IF Truthy(ctx) THEN RevisionContextSection(ctx) ELSE << >>)

\* buildTranslationPrompt
buildTranslationPrompt(sys, b) ==
    sys \o << "\n\nTranslate each of the following messages:\n\n" >> \o StringifyBatch(b)

\* buildRevisionPrompt
buildRevisionPrompt(sys, b) ==
    sys
    \o << "\n\nAnalyze each of the following messages and return a JSON array of suggestions.\nFor each issue found, include: the message key, the original text, your suggested fix, a brief reason, and the error type.\nIf a message has no issues, do not include it in the output.\n\nMessages to analyze:\n\n" >>
    \o StringifyBatch(b)

\* The prompt template of the batch loop of packages/translator.
TranslatorPrompt(sys, b) ==
    sys
    \o << "\n\nTranslate each of the following messages. Return ONLY a valid JSON object mapping the original keys to translated values.\n\nMessages to translate:\n" >>
    \o StringifyBatch(b)

SystemPromptOf(who, lang, types, ctx) ==
    IF who = "revise" THEN buildRevisionSystemPrompt(types, ctx)
    ELSE buildSystemPrompt(lang, ctx)

PromptOf(who, sys, b) ==
    IF who = "revise" THEN buildRevisionPrompt(sys, b)
    ELSE IF who = "core" THEN buildTranslationPrompt(sys, b)
    ELSE TranslatorPrompt(sys, b)

\* The other functions are not called.
PromptOnly ==
    /\ OrchIdle
    /\ ClientIdle
    /\ PairIdle
    /\ AdviseIdle
    /\ VerifyIdle
    /\ SitemapIdle
    /\ PostIdle

InitPrompt ==
    /\ PromptOnly
    /\ builder \in {"core", "revise", "translator"}
    /\ targetLanguage \in TargetLanguages
    /\ errorTypes \in ErrorTypeLists
    /\ context \in Contexts
    /\ messages \in MessageLists
    /\ systemPrompt = << >>
    /\ prompt = << >>
    /\ promptBatch = << >>
    /\ promptIndex = 0
    /\ promptsSent = 0
    /\ prompts = << >>
    /\ bpc = "start"

\* const systemPrompt = buildSystemPrompt(targetLanguage, context)
BuildSystemPrompt ==
    /\ bpc = "start"
    /\ systemPrompt' = SystemPromptOf(builder, targetLanguage, errorTypes, context)
    /\ bpc' = "loop"
    /\ UNCHANGED << builder, targetLanguage, errorTypes, context, messages, prompt,
                    promptBatch, promptIndex, promptsSent, prompts >>
    /\ UNCHANGED << orchVars, adviseVars, verifyVars, sitemapVars, postVars,
                    pairVars, clientVars >>

\* Loop head with entries left: slice the batch, build its prompt, hand it
\* to the model.
BuildPrompt ==
    /\ bpc = "loop"
    /\ LoopCondition(promptIndex, Len(messages))
    /\ promptBatch' = slice(messages, promptIndex, promptIndex + BatchSizeOf(builder))
    /\ prompt' = PromptOf(builder, systemPrompt, promptBatch')
    /\ promptsSent' = promptsSent + 1
    /\ prompts' = Append(prompts, prompt')
    /\ bpc' = "sent"
    /\ UNCHANGED << builder, targetLanguage, errorTypes, context, messages,
                    systemPrompt, promptIndex >>
    /\ UNCHANGED << orchVars, adviseVars, verifyVars, sitemapVars, postVars,
                    pairVars, clientVars >>

\* The model answered: i += batch size.
PromptAnswered ==
    /\ bpc = "sent"
    /\ promptIndex' = NextIndex(promptIndex, BatchSizeOf(builder))
    /\ bpc' = "loop"
    /\ UNCHANGED << builder, targetLanguage, errorTypes, context, messages,
                    systemPrompt, prompt, promptBatch, promptsSent, prompts >>
    /\ UNCHANGED << orchVars, adviseVars, verifyVars, sitemapVars, postVars,
                    pairVars, clientVars >>

\* Loop head with no entries left.
PromptsDone ==
    /\ bpc = "loop"
    /\ ~LoopCondition(promptIndex, Len(messages))
    /\ bpc' = "done"
    /\ UNCHANGED << builder, targetLanguage, errorTypes, context, messages,
                    systemPrompt, prompt, promptBatch, promptIndex, promptsSent,
                    prompts >>
    /\ UNCHANGED << orchVars, adviseVars, verifyVars, sitemapVars, postVars,
                    pairVars, clientVars >>

NextPrompt ==
    \/ BuildSystemPrompt
    \/ BuildPrompt
    \/ PromptAnswered
    \/ PromptsDone

SpecPrompt == InitPrompt /\ [][NextPrompt]_vars

\* --------------------------------------------------------- GET /api/sitemap
\* A URL is a sequence of pieces: the origin, then path pieces, each "/" a
\* piece of its own.
SiteOrigin == "https://site.test"

\* The page number k of the site, with a number of trailing slashes.
PageUrl(k, slashes) ==
    << SiteOrigin, "/", "p", ToString(k) >> \o [j \in 1..slashes |-> "/"]

HomeUrl(slashes) == << SiteOrigin >> \o [j \in 1..slashes |-> "/"]

\* The sub-sitemap number k of the site.
SubSitemapUrl(k) == << SiteOrigin, "/", "sitemap-", ToString(k), ".xml" >>

\* new URL(analyzedUrl) succeeds
IsUrl(u) == u # << >> /\ u[1] = SiteOrigin

\* new URL(analyzedUrl).origin
OriginOf(u) == << u[1] >>

\* `${origin}/sitemap.xml`
SitemapUrlOf(u) == OriginOf(u) \o << "/", "sitemap.xml" >>

\* A faulty normalisation that keeps the trailing slashes.
StripNothing(u) == u

\* url.replace(/\/+$/, '')
RECURSIVE StripSlashes(_)
StripSlashes(u) ==
    IF u # << >> /\ u[Len(u)] = "/" THEN StripSlashes(SubSeq(u, 1, Len(u) - 1))
    ELSE u

\* if (result.length >= 50) break
maxResults == 50

\* extractLocs(text).slice(0, 5)
maxSubSitemaps == 5

\* The for loop of dedup from the p-th URL on.
RECURSIVE dedupFrom(_, _, _, _, _)
dedupFrom(urls, p, seen, result, normalizedExclude) ==
    IF p > Len(urls) THEN result
    ELSE IF StripSlashes(urls[p]) = normalizedExclude \/ StripSlashes(urls[p]) \in seen
    THEN dedupFrom(urls, p + 1, seen, result, normalizedExclude)
    ELSE IF Len(result) + 1 >= maxResults THEN Append(result, urls[p])
    ELSE dedupFrom(urls, p + 1, seen \cup {StripSlashes(urls[p])},
                   Append(result, urls[p]), normalizedExclude)

\* function dedup(urls, excludeUrl)
dedup(urls, excludeUrl) == dedupFrom(urls, 1, {}, << >>, StripSlashes(excludeUrl))

\* A sitemap is a sequence of elements, each a sequence of pieces.
Whitespace == {" ", "\n"}

\* <loc> url </loc>, the URL between white space.
LocElement(u) == << "<loc>", "\n", " " >> \o u \o << " ", "</loc>" >>

LastmodElement == << "<lastmod>", "2024-01-01", "</lastmod>" >>

SitemapIndexTag == << "<sitemapindex", " xmlns=...>" >>

UrlsetTag == << "<urlset", " xmlns=...>" >>

\* The text of s without the white space at its ends.
RECURSIVE Trim(_)
Trim(str) ==
    IF str = << >> THEN str
    ELSE IF str[1] \in Whitespace THEN Trim(Tail(str))
    ELSE IF str[Len(str)] \in Whitespace THEN Trim(SubSeq(str, 1, Len(str) - 1))
    ELSE str

\* /<loc>\s*(.*?)\s*<\/loc>/ on one element: the captured text, if any.
LocOf(el) ==
    IF /\ Len(el) >= 2
       /\ el[1] = "<loc>"
       /\ el[Len(el)] = "</loc>"
       /\ \A k \in DOMAIN Trim(SubSeq(el, 2, Len(el) - 1)) :
              Trim(SubSeq(el, 2, Len(el) - 1))[k] # "\n"
    THEN << Trim(SubSeq(el, 2, Len(el) - 1)) >>
    ELSE << >>

\* function extractLocs(xml)
extractLocs(xml) == FlatRange([k \in DOMAIN xml |-> LocOf(xml[k])], 1, Len(xml))

\* text.includes('<sitemapindex')
IsSitemapIndex(xml) == \E k \in DOMAIN xml : includes(xml[k], << "<sitemapindex" >>)

\* The URLs of the large sitemap: more than dedup returns.
BigSitemapUrls == 60

\* The sitemaps a site serves.
SmallSitemap ==
    << UrlsetTag, LocElement(PageUrl(1, 0)), LastmodElement,
       LocElement(PageUrl(1, 1)), LocElement(HomeUrl(1)), LocElement(PageUrl(2, 2)),
       LocElement(PageUrl(3, 0)), LocElement(HomeUrl(0)), LocElement(PageUrl(2, 0)) >>

BigSitemap ==
    << UrlsetTag >> \o [k \in 1..BigSitemapUrls |-> LocElement(PageUrl(k, k % 2))]

EmptySitemap == << UrlsetTag, LastmodElement >>

SitemapIndex ==
    << SitemapIndexTag >> \o [k \in 1..(maxSubSitemaps + 1) |-> LocElement(SubSitemapUrl(k))]

ShortSitemapIndex ==
    << SitemapIndexTag, LocElement(SubSitemapUrl(1)), LocElement(SubSitemapUrl(2)) >>

Sitemaps == {SmallSitemap, BigSitemap, EmptySitemap, SitemapIndex, ShortSitemapIndex}

\* What the sub-sitemaps of an index answer with.
SubSitemaps == {SmallSitemap, BigSitemap, ShortSitemapIndex}

\* The url parameters of a request: none, no URL, pages of the site.
AnalyzedUrls ==
    {<< >>, << "not a url" >>, HomeUrl(0), HomeUrl(1), PageUrl(1, 0), PageUrl(3, 2)}

\* A faulty catch clause that answers with an error.
getCatchFails == ErrorResponse

\* catch { return Response.json({urls: []}); }
getCatch == JsonUrls(<< >>)

\* The other functions are not called.
SitemapOnly ==
    /\ OrchIdle
    /\ ClientIdle
    /\ PairIdle
    /\ AdviseIdle
    /\ VerifyIdle
    /\ PromptIdle
    /\ PostIdle

InitSitemap ==
    /\ SitemapOnly
    /\ analyzedUrl \in AnalyzedUrls
    /\ gpc = "called"
    /\ subSitemapUrls = << >>
    /\ results = << >>
    /\ pending = {}
    /\ candidates = << >>
    /\ failure = "none"
    /\ sitemapResponse = NoSitemapResponse

\* GET up to the fetch of the sitemap of the site.
SitemapRequested ==
    /\ gpc = "called"
    /\ IF analyzedUrl = << >> \/ ~IsUrl(analyzedUrl)
       THEN /\ sitemapResponse' = JsonUrls(<< >>)
            /\ failure' = "url"
            /\ gpc' = "responded"
       ELSE /\ gpc' = "fetching"
            /\ UNCHANGED << sitemapResponse, failure >>
    /\ UNCHANGED << analyzedUrl, subSitemapUrls, results, pending, candidates >>
    /\ UNCHANGED << orchVars, adviseVars, verifyVars, promptVars, postVars,
                    pairVars, clientVars >>

\* The fetch of the sitemap of the site throws (timeout, network): GET's
\* catch clause answers.
SitemapFetchThrows ==
    /\ gpc = "fetching"
    /\ sitemapResponse' = getCatch
    /\ failure' = "threw"
    /\ gpc' = "responded"
    /\ UNCHANGED << analyzedUrl, subSitemapUrls, results, pending, candidates >>
    /\ UNCHANGED << orchVars, adviseVars, verifyVars, promptVars, postVars,
                    pairVars, clientVars >>

\* if (!response.ok) return []
SitemapNotOk ==
    /\ gpc = "fetching"
    /\ sitemapResponse' = JsonUrls(<< >>)
    /\ failure' = "not ok"
    /\ gpc' = "responded"
    /\ UNCHANGED << analyzedUrl, subSitemapUrls, results, pending, candidates >>
    /\ UNCHANGED << orchVars, adviseVars, verifyVars, promptVars, postVars,
                    pairVars, clientVars >>

\* The sitemap of the site is served: an index starts the fetches of its
\* first sub-sitemaps, a URL set is deduplicated and returned.
SitemapServed ==
    /\ gpc = "fetching"
    /\ \E xml \in Sitemaps :
          IF IsSitemapIndex(xml)
          THEN /\ subSitemapUrls' = slice(extractLocs(xml), 0, maxSubSitemaps)
               /\ pending' = DOMAIN subSitemapUrls'
               /\ results' = [k \in DOMAIN subSitemapUrls' |-> << >>]
               /\ gpc' = "subs"
               /\ UNCHANGED << candidates, sitemapResponse >>
          ELSE /\ candidates' = extractLocs(xml)
               /\ sitemapResponse' = JsonUrls(dedup(candidates', analyzedUrl))
               /\ gpc' = "responded"
               /\ UNCHANGED << subSitemapUrls, pending, results >>
    /\ UNCHANGED << analyzedUrl, failure >>
    /\ UNCHANGED << orchVars, adviseVars, verifyVars, promptVars, postVars,
                    pairVars, clientVars >>

\* One of the fetches of Promise.all is answered: not ok gives [], a sitemap
\* gives its deduplicated locs (depth is 1: an index is read as a URL set).
SubSitemapAnswered ==
    /\ gpc = "subs"
    /\ \E k \in pending :
          /\ \/ results' = [results EXCEPT ![k] = << >>]
             \/ \E xml \in SubSitemaps :
                   results' = [results EXCEPT ![k] = dedup(extractLocs(xml), analyzedUrl)]
          /\ pending' = pending \ {k}
    /\ UNCHANGED << analyzedUrl, gpc, subSitemapUrls, candidates, failure,
                    sitemapResponse >>
    /\ UNCHANGED << orchVars, adviseVars, verifyVars, promptVars, postVars,
                    pairVars, clientVars >>

\* One of the fetches of Promise.all throws: Promise.all rejects and GET's
\* catch clause answers.
SubSitemapThrows ==
    /\ gpc = "subs"
    /\ pending # {}
    /\ sitemapResponse' = getCatch
    /\ failure' = "threw"
    /\ gpc' = "responded"
    /\ UNCHANGED << analyzedUrl, subSitemapUrls, results, pending, candidates >>
    /\ UNCHANGED << orchVars, adviseVars, verifyVars, promptVars, postVars,
                    pairVars, clientVars >>

\* Promise.all resolves: return dedup(results.flat(), excludeUrl)
SubSitemapsDone ==
    /\ gpc = "subs"
    /\ pending = {}
    /\ candidates' = FlatRange(results, 1, Len(results))
    /\ sitemapResponse' = JsonUrls(dedup(candidates', analyzedUrl))
    /\ gpc' = "responded"
    /\ UNCHANGED << analyzedUrl, subSitemapUrls, results, pending, failure >>
    /\ UNCHANGED << orchVars, adviseVars, verifyVars, promptVars, postVars,
                    pairVars, clientVars >>

NextSitemap ==
    \/ SitemapRequested
    \/ SitemapFetchThrows
    \/ SitemapNotOk
    \/ SitemapServed
    \/ SubSitemapAnswered
    \/ SubSitemapThrows
    \/ SubSitemapsDone

SpecSitemap == InitSitemap /\ [][NextSitemap]_vars

\* --------------------------------------------------------- POST /api/advise
\* The elements of its array the model writes in one answer.
MaxElements == 2

\* The suggestions adviseWebsiteStream yields.
StreamSuggestions == {SuggestionData(JSONparseChars(SuggestionItem).value)}

\* What the suggestion stream throws.
StreamFailures == {ErrorOf(Msg429), ErrorOf(MsgAuth), ThrownString(Msg429)}

\* 'Unknown error'
MsgUnknown == << "Unknown error" >>

\* error instanceof Error ? error.message : 'Unknown error'
MessageOf(error) == IF error.isError THEN error.message ELSE MsgUnknown

\* JSON.stringify(suggestion) + '\n'
SuggestionLine(suggestion) ==
    [error |-> FALSE, message |-> << >>, suggestion |-> << suggestion >>]

\* JSON.stringify({error: message}) + '\n'
ErrorLine(message) == [error |-> TRUE, message |-> message, suggestion |-> << >>]

\* A controller of a stream that is readable enqueues and closes; on a
\* stream that is closed or cancelled, enqueue and close throw a TypeError.
CanCloseOrEnqueue(state) == state = "readable"

\* A faulty catch clause that does not write the error line.
CatchLinesNone(error) == << >>

\* catch (error): the lines the catch clause enqueues.
CatchLines(error) == << ErrorLine(MessageOf(error)) >>

\* The other functions are not called.
PostOnly ==
    /\ OrchIdle
    /\ ClientIdle
    /\ PairIdle
    /\ AdviseIdle
    /\ VerifyIdle
    /\ PromptIdle
    /\ SitemapIdle

InitPost ==
    /\ PostOnly
    /\ postRequest \in {PostRequest(k, b, u) : k, b \in BOOLEAN, u \in BodyUrls}
    /\ hpc = "called"
    /\ postResponse = 0
    /\ streamState = "none"
    /\ chunks = << >>
    /\ closeCalls = 0
    /\ generator = "none"
    /\ partialText = FALSE
    /\ elementsRead = 0
    /\ suggestionsOut = << >>
    /\ streamThrew = NoError
    /\ aborted = FALSE
    /\ sinceAbort = NothingSince

\* let url = body.url.trim(), outside of any try: with no string in body.url
\* the expression throws a TypeError and POST rejects.
BodyWithoutUrl == "threw"

\* POST up to its return: the checks of the key, the body and the URL, then
\* the response with the stream whose start() begins to iterate; or up to
\* the TypeError it rejects with.
PostHandled ==
    /\ hpc = "called"
    /\ IF ~postRequest.apiKey
       THEN /\ postResponse' = 500
            /\ hpc' = "answered"
            /\ UNCHANGED << streamState, generator >>
       ELSE IF ~postRequest.json
       THEN /\ postResponse' = 400
            /\ hpc' = "answered"
            /\ UNCHANGED << streamState, generator >>
       ELSE IF postRequest.url = "missing"
       THEN /\ hpc' = BodyWithoutUrl
            /\ UNCHANGED << postResponse, streamState, generator >>
       ELSE IF postRequest.url = "invalid"
       THEN /\ postResponse' = 400
            /\ hpc' = "answered"
            /\ UNCHANGED << streamState, generator >>
       ELSE /\ postResponse' = 200
            /\ hpc' = "streaming"
            /\ streamState' = "readable"
            /\ generator' = "running"
    /\ UNCHANGED << postRequest, chunks, closeCalls, partialText, elementsRead,
                    suggestionsOut, streamThrew, aborted, sinceAbort >>
    /\ UNCHANGED << orchVars, adviseVars, verifyVars, promptVars, sitemapVars,
                    pairVars, clientVars >>

\* The model writes on: the parser reads the beginning of another element.
ElementBegins ==
    /\ hpc = "streaming"
    /\ generator = "running"
    /\ ~partialText
    /\ elementsRead < MaxElements
    /\ partialText' = TRUE
    /\ elementsRead' = elementsRead + 1
    /\ sinceAbort' = IF aborted THEN [sinceAbort EXCEPT !.read = @ + 1] ELSE sinceAbort
    /\ UNCHANGED << postRequest, hpc, postResponse, streamState, chunks, closeCalls,
                    generator, suggestionsOut, streamThrew, aborted >>
    /\ UNCHANGED << orchVars, adviseVars, verifyVars, promptVars, sitemapVars,
                    pairVars, clientVars >>

\* The element is complete and is no suggestion (no JSON, or the schema
\* rejects it): nothing is yielded.
ElementDropped ==
    /\ hpc = "streaming"
    /\ generator = "running"
    /\ partialText
    /\ partialText' = FALSE
    /\ UNCHANGED << postRequest, hpc, postResponse, streamState, chunks, closeCalls,
                    generator, elementsRead, suggestionsOut, streamThrew, aborted,
                    sinceAbort >>
    /\ UNCHANGED << orchVars, adviseVars, verifyVars, promptVars, sitemapVars,
                    pairVars, clientVars >>

\* The element is complete and adviseWebsiteStream yields it: the loop body
\* enqueues its line. On a stream that cannot enqueue, enqueue throws, the
\* catch clause's enqueue throws again, start() rejects and the generator is
\* returned.
SuggestionYielded ==
    /\ hpc = "streaming"
    /\ generator = "running"
    /\ partialText
    /\ partialText' = FALSE
    /\ \E suggestion \in StreamSuggestions :
          /\ suggestionsOut' = Append(suggestionsOut, suggestion)
          /\ IF CanCloseOrEnqueue(streamState)
             THEN /\ chunks' = Append(chunks, SuggestionLine(suggestion))
                  /\ UNCHANGED << hpc, generator >>
             ELSE /\ chunks' = chunks
                  /\ hpc' = "failed"
                  /\ generator' = "returned"
    /\ sinceAbort' = IF aborted
                     THEN [sinceAbort EXCEPT
                              !.yielded = @ + 1,
                              !.enqueued = IF CanCloseOrEnqueue(streamState)
                                           THEN @ + 1 ELSE @]
                     ELSE sinceAbort
    /\ UNCHANGED << postRequest, postResponse, streamState, closeCalls,
                    elementsRead, streamThrew, aborted >>
    /\ UNCHANGED << orchVars, adviseVars, verifyVars, promptVars, sitemapVars,
                    pairVars, clientVars >>

\* The suggestion stream throws: the catch clause enqueues the error line
\* and controller.close() follows.
SuggestionStreamThrows ==
    /\ hpc = "streaming"
    /\ generator = "running"
    /\ \E error \in StreamFailures :
          /\ streamThrew' = error
          /\ IF CanCloseOrEnqueue(streamState)
             THEN /\ chunks' = chunks \o CatchLines(error)
                  /\ streamState' = "closed"
                  /\ closeCalls' = closeCalls + 1
                  /\ hpc' = "closed"
             ELSE /\ hpc' = "failed"
                  /\ UNCHANGED << chunks, streamState, closeCalls >>
    /\ generator' = "thrown"
    /\ partialText' = FALSE
    /\ UNCHANGED << postRequest, postResponse, elementsRead, suggestionsOut, aborted,
                    sinceAbort >>
    /\ UNCHANGED << orchVars, adviseVars, verifyVars, promptVars, sitemapVars,
                    pairVars, clientVars >>

\* The text stream ends: the loop is left and controller.close() follows.
SuggestionStreamEnds ==
    /\ hpc = "streaming"
    /\ generator = "running"
    /\ generator' = "done"
    /\ partialText' = FALSE
    /\ IF CanCloseOrEnqueue(streamState)
       THEN /\ streamState' = "closed"
            /\ closeCalls' = closeCalls + 1
            /\ hpc' = "closed"
       ELSE /\ hpc' = "failed"
            /\ UNCHANGED << streamState, closeCalls >>
    /\ UNCHANGED << postRequest, postResponse, chunks, elementsRead, suggestionsOut,
                    streamThrew, aborted, sinceAbort >>
    /\ UNCHANGED << orchVars, adviseVars, verifyVars, promptVars, sitemapVars,
                    pairVars, clientVars >>

\* The client aborts its fetch.
ClientAborts ==
    /\ hpc = "streaming"
    /\ ~aborted
    /\ aborted' = TRUE
    /\ UNCHANGED << postRequest, hpc, postResponse, streamState, chunks, closeCalls,
                    generator, partialText, elementsRead, suggestionsOut, streamThrew,
                    sinceAbort >>
    /\ UNCHANGED << orchVars, adviseVars, verifyVars, promptVars, sitemapVars,
                    pairVars, clientVars >>

\* The server cancels the body stream of the aborted request; the stream
\* has no cancel callback and the loop of start() is not told.
BodyCancelled ==
    /\ hpc = "streaming"
    /\ aborted
    /\ streamState = "readable"
    /\ streamState' = "cancelled"
    /\ UNCHANGED << postRequest, hpc, postResponse, chunks, closeCalls, generator,
                    partialText, elementsRead, suggestionsOut, streamThrew, aborted,
                    sinceAbort >>
    /\ UNCHANGED << orchVars, adviseVars, verifyVars, promptVars, sitemapVars,
                    pairVars, clientVars >>

\* The steps of the handler and of the suggestion stream.
HandlerStep ==
    \/ PostHandled
    \/ ElementBegins
    \/ ElementDropped
    \/ SuggestionYielded
    \/ SuggestionStreamThrows
    \/ SuggestionStreamEnds

NextPost ==
    \/ HandlerStep
    \/ ClientAborts
    \/ BodyCancelled

\* The handler runs on, and the text stream of the model ends or throws.
PostFairness ==
    /\ WF_vars(PostHandled)
    /\ WF_vars(SuggestionStreamEnds \/ SuggestionStreamThrows)

SpecPost == InitPost /\ [][NextPost]_vars /\ PostFairness

\* ------------------------------- two concurrent calls of translateMessages
\* The two calls, e.g. of two users of a web endpoint.
Callers == 1..2

\* The number of messages a call is given: none, one batch, two batches.
PairEntryCounts == {0, 1, batchSize + 1}

\* What a model invocation for batch b settles with.
TextOutcome(text) == [kind |-> "text", text |-> text, error |-> NoError]

ErrorOutcome(error) == [kind |-> "error", text |-> << >>, error |-> error]

PairTexts(b) ==
    { << Prose >>,
      << LBrace, Members(AllKeys(b)), RBrace >>,
      << LBrace, Members(MissingKey(b)), RBrace >> }

PairErrors == { ErrorOf(Msg429), ErrorOf(MsgAuth) }

\* The local variables of a call that is made but has not run yet.
NewCall(es) ==
    [entries |-> es, total |-> Len(es), pc |-> "called", i |-> 0,
     batch |-> << >>, attempt |-> 0, processed |-> 0, progressCalls |-> << >>,
     invocations |-> 0, retries |-> 0, thrown |-> NoError]

\* A faulty accumulator that is one object for every call.
AccumulatorShared(c) == 1

\* const translated = {} is evaluated in each call: call c has its own object.
AccumulatorOf(c) == c

\* The head of the batch loop: withRetry invokes the model for the next
\* batch, or the call returns.
LoopHead(call) ==
    IF LoopCondition(call.i, Len(call.entries))
    THEN [call EXCEPT !.batch = slice(call.entries, call.i, call.i + batchSize),
                      !.attempt = 0,
                      !.invocations = @ + 1,
                      !.pc = "await"]
    ELSE [call EXCEPT !.pc = "done"]

\* The invocation resolved with text: reconcile into acc, count, report, and
\* go to the head of the loop.
Resolved(call, acc, text) ==
    LET count == AddProcessed(call.processed, call.batch)
    IN [call |-> LoopHead([call EXCEPT
                              !.processed = count,
                              !.progressCalls = Append(@, << count, call.total >>),
                              !.i = NextIndex(call.i, batchSize)]),
        acc |-> ReconcileText(acc, call.batch, text)]

\* The invocation rejected: the catch clause of withRetry.
Rejected(call, error) ==
    IF withRetryCatch(error, call.attempt).do = "throw"
    THEN [call EXCEPT !.pc = "thrown",
                      !.thrown = withRetryCatch(error, call.attempt).error]
    ELSE [call EXCEPT !.pc = "sleep", !.retries = @ + 1]

\* The backoff timer fired: attempt++ and the next turn of the loop.
TimerFired(call) ==
    IF withRetryLoop(NextAttempt(call.attempt))
    THEN [call EXCEPT !.attempt = NextAttempt(call.attempt),
                      !.invocations = @ + 1,
                      !.pc = "await"]
    ELSE [call EXCEPT !.attempt = NextAttempt(call.attempt),
                      !.pc = "thrown",
                      !.thrown = RateLimitError]

\* The other call.
Other(c) == 3 - c

\* Call c runs while the other call is suspended between its first and its
\* last step.
Overlaps(c) == overlapped \/ pair[Other(c)].pc \in {"await", "sleep"}

PairOnly ==
    /\ OrchIdle
    /\ ClientIdle
    /\ AdviseIdle
    /\ VerifyIdle
    /\ PromptIdle
    /\ SitemapIdle
    /\ PostIdle

\* Two calls of translateMessages are made.
InitPair ==
    /\ pair \in [Callers -> {NewCall(EntriesOf(n)) : n \in PairEntryCounts}]
    /\ accumulators = [c \in Callers |-> << >>]
    /\ modelLog = [c \in Callers |-> << >>]
    /\ overlapped = FALSE
    /\ PairOnly

\* A call runs from its first statement to its first suspension point.
CallBegins ==
    \E c \in Callers :
        /\ pair[c].pc = "called"
        /\ pair' = [pair EXCEPT ![c] = LoopHead(pair[c])]
        /\ accumulators' = [accumulators EXCEPT ![AccumulatorOf(c)] = << >>]
        /\ overlapped' = Overlaps(c)
        /\ UNCHANGED modelLog
        /\ UNCHANGED << orchVars, adviseVars, verifyVars, promptVars,
                        sitemapVars, postVars, clientVars >>

\* The model invocation of a call resolves, and the call runs to its next
\* suspension point or to its return.
ModelResolves ==
    \E c \in Callers :
        /\ pair[c].pc = "await"
        /\ \E text \in PairTexts(pair[c].batch) :
              LET after == Resolved(pair[c], accumulators[AccumulatorOf(c)], text)
              IN /\ pair' = [pair EXCEPT ![c] = after.call]
                 /\ accumulators' =
                        [accumulators EXCEPT ![AccumulatorOf(c)] = after.acc]
                 /\ modelLog' =
                        [modelLog EXCEPT ![c] = Append(@, TextOutcome(text))]
        /\ overlapped' = Overlaps(c)
        /\ UNCHANGED << orchVars, adviseVars, verifyVars, promptVars,
                        sitemapVars, postVars, clientVars >>

\* The model invocation of a call rejects: the call rejects, or it starts its
\* backoff sleep.
ModelRejects ==
    \E c \in Callers :
        /\ pair[c].pc = "await"
        /\ \E error \in PairErrors :
              /\ pair' = [pair EXCEPT ![c] = Rejected(pair[c], error)]
              /\ modelLog' =
                     [modelLog EXCEPT ![c] = Append(@, ErrorOutcome(error))]
        /\ overlapped' = Overlaps(c)
        /\ UNCHANGED accumulators
        /\ UNCHANGED << orchVars, adviseVars, verifyVars, promptVars,
                        sitemapVars, postVars, clientVars >>

\* The backoff timer of a call fires.
BackoffEnds ==
    \E c \in Callers :
        /\ pair[c].pc = "sleep"
        /\ pair' = [pair EXCEPT ![c] = TimerFired(pair[c])]
        /\ overlapped' = Overlaps(c)
        /\ UNCHANGED << accumulators, modelLog >>
        /\ UNCHANGED << orchVars, adviseVars, verifyVars, promptVars,
                        sitemapVars, postVars, clientVars >>

NextPair ==
    \/ CallBegins
    \/ ModelResolves
    \/ ModelRejects
    \/ BackoffEnds

SpecPair == InitPair /\ [][NextPair]_vars

\* ------------------------------------------------------------ the web client
\* The calls of handleSubmit on one page.
MaxSubmits == 3

\* The suggestion lines of one response.
MaxLines == 2

\* One call of handleSubmit: the await it is at ("fetch", "json", "read",
\* "done"), whether its controller was aborted, the suggestion lines it has
\* read, and how it ended.
Request(at, cancelled, count, ending) ==
    [phase |-> at, aborted |-> cancelled, lines |-> count, outcome |-> ending]

\* abortRef.current?.abort()
AbortCurrent(rs, ref) ==
    IF ref = 0 THEN rs ELSE [rs EXCEPT ![ref].aborted = TRUE]

\* The sitemap effect, run when loading or suggestions changed: the fetches
\* of /api/sitemap it starts.
SitemapEffect(changed, load, list) ==
    IF changed /\ ~load /\ list > 0 THEN 1 ELSE 0

\* suggestions != null && suggestions.length === 0 && !loading: the page
\* shows 'No issues found.'
NoIssuesShown == issues # NoList /\ issues = 0 /\ ~loading

\* The call r ended with outcome o: the finally block and the render.
Finished(r, o, box) ==
    /\ requests' = [requests EXCEPT ![r].phase = "done", ![r].outcome = o]
    /\ errorBox' = box
    /\ loading' = FALSE
    /\ sitemapFetches' = sitemapFetches + SitemapEffect(loading, FALSE, issues)
    /\ UNCHANGED << issues, sitemapLinks, abortRef >>

\* handleSubmit up to await fetch(...).
Submitted ==
    /\ Len(requests) < MaxSubmits
    /\ requests' = Append(AbortCurrent(requests, abortRef),
                          Request("fetch", FALSE, 0, "none"))
    /\ abortRef' = Len(requests) + 1
    /\ loading' = TRUE
    /\ errorBox' = "none"
    /\ issues' = NoList
    /\ sitemapLinks' = FALSE
    /\ UNCHANGED sitemapFetches

ClientOnly ==
    /\ OrchIdle
    /\ AdviseIdle
    /\ VerifyIdle
    /\ PromptIdle
    /\ SitemapIdle
    /\ PostIdle
    /\ PairIdle

\* The page is open.
InitClient ==
    /\ ClientOnly
    /\ loading = FALSE
    /\ issues = NoList
    /\ errorBox = "none"
    /\ sitemapLinks = FALSE
    /\ sitemapFetches = 0
    /\ requests = << >>
    /\ abortRef = 0

\* The form is submitted; its button and its input are disabled while
\* loading.
FormSubmitted ==
    /\ ~loading
    /\ Submitted
    /\ UNCHANGED << orchVars, adviseVars, verifyVars, promptVars, sitemapVars,
                    postVars, pairVars >>

\* A link of 'Other pages on this site' is clicked: handleSubmit(null, subUrl).
SitemapLinkClicked ==
    /\ sitemapLinks
    /\ Submitted
    /\ UNCHANGED << orchVars, adviseVars, verifyVars, promptVars, sitemapVars,
                    postVars, pairVars >>

\* fetch resolves: with a response that is not ok, or with a stream
\* (setSuggestions([])).
FetchResolves ==
    \E r \in DOMAIN requests, ok \in BOOLEAN :
        /\ requests[r].phase = "fetch"
        /\ ~requests[r].aborted
        /\ IF ok
           THEN /\ requests' = [requests EXCEPT ![r].phase = "read"]
                /\ issues' = 0
           ELSE /\ requests' = [requests EXCEPT ![r].phase = "json"]
                /\ issues' = issues
        /\ UNCHANGED << loading, errorBox, sitemapLinks, sitemapFetches, abortRef >>
        /\ UNCHANGED << orchVars, adviseVars, verifyVars, promptVars, sitemapVars,
                        postVars, pairVars >>

\* response.json() of a response that is not ok resolves: setError, return.
ErrorBodyRead ==
    \E r \in DOMAIN requests :
        /\ requests[r].phase = "json"
        /\ ~requests[r].aborted
        /\ Finished(r, "not ok", "server")
        /\ UNCHANGED << orchVars, adviseVars, verifyVars, promptVars, sitemapVars,
                        postVars, pairVars >>

\* reader.read() resolves with a suggestion line.
SuggestionLineRead ==
    \E r \in DOMAIN requests :
        /\ requests[r].phase = "read"
        /\ ~requests[r].aborted
        /\ requests[r].lines < MaxLines
        /\ requests' = [requests EXCEPT ![r].lines = @ + 1]
        /\ issues' = (IF issues = NoList THEN 0 ELSE issues) + 1
        /\ sitemapFetches' = sitemapFetches + SitemapEffect(TRUE, loading, issues')
        /\ UNCHANGED << loading, errorBox, sitemapLinks, abortRef >>
        /\ UNCHANGED << orchVars, adviseVars, verifyVars, promptVars, sitemapVars,
                        postVars, pairVars >>

\* reader.read() resolves with the line {"error": message}: setError, return.
ErrorLineRead ==
    \E r \in DOMAIN requests :
        /\ requests[r].phase = "read"
        /\ ~requests[r].aborted
        /\ Finished(r, "error line", "line")
        /\ UNCHANGED << orchVars, adviseVars, verifyVars, promptVars, sitemapVars,
                        postVars, pairVars >>

\* reader.read() resolves with done: break.
StreamDone ==
    \E r \in DOMAIN requests :
        /\ requests[r].phase = "read"
        /\ ~requests[r].aborted
        /\ Finished(r, "clean", errorBox)
        /\ UNCHANGED << orchVars, adviseVars, verifyVars, promptVars, sitemapVars,
                        postVars, pairVars >>

\* An await of the call rejects with an error that is no AbortError.
RequestFails ==
    \E r \in DOMAIN requests :
        /\ requests[r].phase # "done"
        /\ ~requests[r].aborted
        /\ Finished(r, "failed", "connect")
        /\ UNCHANGED << orchVars, adviseVars, verifyVars, promptVars, sitemapVars,
                        postVars, pairVars >>

\* The await of an aborted call rejects with an AbortError: the catch clause
\* sets no error, the finally block runs.
AbortSettles ==
    \E r \in DOMAIN requests :
        /\ requests[r].phase # "done"
        /\ requests[r].aborted
        /\ Finished(r, "aborted", errorBox)
        /\ UNCHANGED << orchVars, adviseVars, verifyVars, promptVars, sitemapVars,
                        postVars, pairVars >>

\* A fetch of /api/sitemap settles: setSitemapUrls(data.urls) with some URLs
\* or with none, or the silent failure.
SitemapAnswered ==
    /\ sitemapFetches > 0
    /\ sitemapFetches' = sitemapFetches - 1
    /\ \E answered \in {"urls", "empty", "failed"} :
          sitemapLinks' = IF answered = "urls" THEN TRUE
                          ELSE IF answered = "empty" THEN FALSE
                          ELSE sitemapLinks
    /\ UNCHANGED << loading, issues, errorBox, requests, abortRef >>
    /\ UNCHANGED << orchVars, adviseVars, verifyVars, promptVars, sitemapVars,
                    postVars, pairVars >>

NextClient ==
    \/ FormSubmitted
    \/ SitemapLinkClicked
    \/ FetchResolves
    \/ ErrorBodyRead
    \/ SuggestionLineRead
    \/ ErrorLineRead
    \/ StreamDone
    \/ RequestFails
    \/ AbortSettles
    \/ SitemapAnswered

SpecClient == InitClient /\ [][NextClient]_vars

\* ============================================================== properties
CeilDiv(a, b) == (a + b - 1) \div b

RECURSIVE Concat(_)
Concat(ss) == IF ss = << >> THEN << >> ELSE Head(ss) \o Concat(Tail(ss))

\* The accumulator after the first j batches, computed from what the model
\* answered for them alone.
RECURSIVE ExpectedAfter(_)
ExpectedAfter(j) ==
    IF j = 0 THEN << >>
    ELSE IF reconciled[j].fallback
         THEN FallBack(ExpectedAfter(j - 1), batches[j])
         ELSE MergeEntries(ExpectedAfter(j - 1), reconciled[j].value)

Translators == {"translator", "cli", "core"}

\* C1 -- Completeness of translateMessages: for a non-empty input and any
\* sequence of model responses for which the call returns, the returned map
\* holds every key of the input, and has as many keys as the input.
\* (Refuted: an answer that is valid JSON but lacks a key, an empty object,
\* or an absent structured output leaves keys out of the result.)
C1_Completeness ==
    (pc = "done" /\ impl \in Translators /\ total > 0) =>
        /\ Range(entries) \subseteq DOMAIN translated
        /\ Cardinality(DOMAIN translated) = total

\* C2 -- Fallback on a malformed response of a free-text translator: when the
\* call returns, every key of every batch whose response had no {...} region,
\* or whose region failed to parse, is mapped to its source text unchanged.
\* (Refuted: the object answered for a later batch is merged unfiltered and
\* overwrites the fallback value of a key of an earlier batch.)
C2_FallbackKeepsSource ==
    (pc = "done" /\ impl \in RetryImpls) =>
        \A j \in DOMAIN reconciled :
            reconciled[j].fallback =>
                \A k \in Range(batches[j]) :
                    k \in DOMAIN translated /\ translated[k] = Src(k)

\* C3 -- Retry exhaustion in packages/translator: when every attempt of a
\* withRetry call failed with a rate-limit error, the call throws the
\* RateLimitError with its default message, which is no error of the
\* provider, and it has invoked the action exactly maxAttempts times;
\* RateLimitError is thrown in no other case.
C3_ExhaustionThrowsRateLimitError ==
    impl = "translator" =>
        /\ (pc = "thrown" /\ rateLimited = batchCalls) =>
               /\ thrown = RateLimitError
               /\ thrown.name = "RateLimitError"
               /\ thrown.message = MsgRateLimit
               /\ thrown \notin ProviderErrors
               /\ thrown # caught
               /\ batchCalls = maxAttempts
        /\ (pc = "thrown" /\ thrown = RateLimitError) =>
               /\ batchCalls = maxAttempts
               /\ rateLimited = maxAttempts

C3_Witness ==
    /\ impl = "translator"
    /\ pc = "thrown"
    /\ rateLimited = batchCalls
    /\ thrown = RateLimitError
    /\ Len(slept) = maxAttempts - 1

\* C4 -- Fatal errors are never retried: when an invocation fails with an
\* error that is not classified as rate-limited, at whatever attempt, the
\* withRetry call throws that very error, has slept only after the earlier
\* rate-limit failures, and has made no invocation after the failed one; a
\* fatal error at the first attempt means exactly one invocation.
C4_FatalErrorsNeverRetried ==
    (impl \in RetryImpls /\ caught # NoError /\ ~isRateLimited(caught)) =>
        /\ pc = "thrown"
        /\ thrown = caught
        /\ batchCalls = rateLimited + 1
        /\ Len(slept) = rateLimited
        /\ inflight = {}
        /\ (rateLimited = 0 => batchCalls = 1)

C4_Witness ==
    /\ impl \in RetryImpls
    /\ pc = "thrown"
    /\ caught = ErrorOf(MsgAuth)
    /\ thrown = caught
    /\ rateLimited = maxAttempts - 1
    /\ batchCalls = maxAttempts

\* C5 -- Retry then success: a withRetry call gives up on rate-limit errors
\* only after maxAttempts of them, so k < maxAttempts rate-limit failures
\* followed by a success return the successful value after exactly k + 1
\* invocations; and the accumulator is what the answers of the successful
\* attempts alone determine, as if each first attempt had succeeded.
C5_RetryThenSuccess ==
    impl \in RetryImpls =>
        /\ (pc = "thrown" /\ isRateLimited(caught)) => rateLimited >= maxAttempts
        /\ pc = "sleep" => batchCalls = rateLimited
        /\ pc = "progress" =>
               /\ batchCalls = rateLimited + 1
               /\ Len(slept) = rateLimited
               /\ translated = ExpectedAfter(Len(reconciled))
        /\ pc = "done" => translated = ExpectedAfter(Len(reconciled))

C5_Witness ==
    /\ impl = "translator"
    /\ pc = "progress"
    /\ rateLimited = maxAttempts - 1
    /\ batchCalls = maxAttempts
    /\ ~reconciled[Len(reconciled)].fallback
    /\ Range(batch) \subseteq DOMAIN translated

\* C6 -- Bounded attempts: in every withRetry implementation of the
\* repository the wrapped action is invoked at most maxAttempts times (3 by
\* default) by one call.
\* (Refuted: the loop of the CLI copy runs for attempt 0..maxRetries, which
\* is four invocations with the default arguments.)
C6_AtMostMaxAttempts ==
    impl \in RetryImpls => batchCalls <= maxAttempts

\* C7 -- Batch count, as the code has it: a translateMessages call that
\* returns has built exactly ceil(N/B) batches, and has made one model
\* invocation per batch plus one for every rate-limited attempt it retried;
\* the core translator, which does not retry, has made exactly ceil(N/B).
C7_InvocationsPerBatchAndRetry ==
    (pc = "done" /\ impl \in Translators) =>
        /\ Len(batches) = CeilDiv(total, BatchSizeOf(impl))
        /\ invocations = CeilDiv(total, BatchSizeOf(impl)) + retried
        /\ (impl = "core" => invocations = CeilDiv(total, BatchSizeOf(impl)))

\* C7 as stated: a translateMessages call that returns has made exactly
\* ceil(N/B) model invocations.
C7_InvocationsEqualBatchCount ==
    (pc = "done" /\ impl \in Translators) =>
        invocations = CeilDiv(total, BatchSizeOf(impl))

C7_Witness ==
    /\ pc = "done"
    /\ impl = "translator"
    /\ total = 2 * batchSize + batchSize \div 2
    /\ Len(batches) = 3
    /\ retried > 0
    /\ invocations = 3 + retried

\* C8 -- Progress monotonicity: within one translateMessages or
\* reviseMessages call the onProgress calls have strictly increasing current,
\* every call has total = |input|, and when the call returns for a non-empty
\* input the last onProgress call has current = total.
C8_ProgressMonotonic ==
    /\ \A j \in DOMAIN progressCalls : progressCalls[j][2] = Len(entries)
    /\ \A j \in DOMAIN progressCalls :
          j > 1 => progressCalls[j - 1][1] < progressCalls[j][1]
    /\ \A j \in DOMAIN progressCalls : progressCalls[j][1] > 0
    /\ (pc = "done" /\ Len(entries) > 0) =>
          /\ Len(progressCalls) > 0
          /\ progressCalls[Len(progressCalls)][1] = Len(entries)

C8_Witness ==
    /\ pc = "done"
    /\ Len(progressCalls) > 2
    /\ progressCalls[Len(progressCalls)][1] = total
    /\ total % BatchSizeOf(impl) # 0

\* C9 -- Batch partition: the batches built so far, concatenated in order,
\* are a prefix of the input entries, and the whole of them when the call
\* returns; every batch is non-empty and has at most B entries, and every
\* batch but the last has exactly B.
C9_BatchesPartitionEntries ==
    /\ Len(Concat(batches)) <= Len(entries)
    /\ Concat(batches) = SubSeq(entries, 1, Len(Concat(batches)))
    /\ \A j \in DOMAIN batches :
          /\ Len(batches[j]) >= 1
          /\ Len(batches[j]) <= BatchSizeOf(impl)
          /\ (j < Len(batches) => Len(batches[j]) = BatchSizeOf(impl))
    /\ pc = "done" => Concat(batches) = entries

C9_Witness ==
    /\ pc = "done"
    /\ Len(batches) > 2
    /\ Len(batches[Len(batches)]) < BatchSizeOf(impl)
    /\ Concat(batches) = entries

\* C10 -- Sequential dispatch: at most one model invocation is outstanding;
\* while the invocation of a batch is outstanding or backing off, every
\* earlier batch has been reconciled and reported to onProgress and no later
\* batch has been built; batches are invoked in input order.
C10_SequentialDispatch ==
    /\ Cardinality(inflight) <= 1
    /\ \A r \in inflight : r.index = i /\ pc = "await" /\ r.call = invocations
    /\ pc = "sleep" => inflight = {}
    /\ pc \in {"await", "sleep", "progress"} =>
          /\ Len(batches) = Len(reconciled) + (IF pc = "progress" THEN 0 ELSE 1)
          /\ Len(progressCalls) = Len(batches) - 1
          /\ i = (Len(batches) - 1) * BatchSizeOf(impl)
          /\ batch = batches[Len(batches)]
    /\ pc = "loop" =>
          /\ Len(reconciled) = Len(batches)
          /\ Len(progressCalls) = Len(batches)
    /\ \A j \in DOMAIN batches :
          batches[j][1] = entries[(j - 1) * BatchSizeOf(impl) + 1]

C10_Witness ==
    /\ pc = "await"
    /\ attempt > 0
    /\ Len(batches) = 2
    /\ Len(reconciled) = 1
    /\ Len(progressCalls) = 1
    /\ Cardinality(inflight) = 1

C12_EmptyInput ==
    (impl \in Translators /\ total = 0) =>
        /\ pc \in {"loop", "done"}
        /\ invocations = 0
        /\ progressCalls = << >>
        /\ batches = << >>
        /\ translated = << >>
        /\ thrown = NoError

C12_Witness ==
    /\ impl \in Translators
    /\ entries = << >>
    /\ pc = "done"
    /\ translated = << >>
    /\ invocations = 0

\* C13 -- Result key space: every key of the map translateMessages returns
\* is a key of the input map, whatever the model answered.
\* (Refuted: every key of the object the model answered is assigned, so a
\* key the model invents is returned.)
C13_ResultKeysAreInputKeys ==
    (impl \in Translators /\ pc = "done") =>
        DOMAIN translated \subseteq Range(entries)

\* The region from the first "{" of a text to the first "}" after it: the
\* first top-level object of a text whose objects are not nested.
FirstObjectRegion(text) ==
    LET opens == {j \in DOMAIN text : text[j].t = "{"}
        closes == {j \in DOMAIN text : text[j].t = "}" /\ j > SetMin(opens)}
    IN IF opens = {} THEN << >>
       ELSE IF closes = {} THEN << >>
       ELSE SubSeq(text, SetMin(opens), SetMin(closes))

\* C14 -- Free-text extraction selects the first top-level JSON object: for
\* a response of the form prose, one valid JSON object, any trailing text,
\* the translator parses the region from the first "{" to its matching "}"
\* and merges that object instead of falling back.
\* (Refuted: the pattern is greedy and runs to the last "}" of the text, so
\* a trailing "}" or a second object makes the parse fail and the batch
\* falls back to its source texts.)
C14_FirstTopLevelObjectIsMerged ==
    (/\ impl \in RetryImpls
     /\ pc = "progress"
     /\ FirstObjectRegion(response.text) # << >>
     /\ JSONparse(FirstObjectRegion(response.text)).ok) =>
        /\ ~reconciled[Len(reconciled)].fallback
        /\ reconciled[Len(reconciled)].value =
               JSONparse(FirstObjectRegion(response.text)).value

\* An absent structured output, or one that holds nothing.
EmptyOutput(out) == ~out.present \/ out.value = << >>

\* A step of a core orchestrator that reconciles an absent or empty output
\* changes no accumulator; the step that follows it reports progress.
StrictSchemaStep ==
    impl \in {"core", "revise"} =>
        /\ (pc = "await" /\ pc' = "progress" /\ EmptyOutput(response'.out)) =>
               /\ translated' = translated
               /\ suggestions' = suggestions
               /\ thrown' = NoError
        /\ (pc = "progress" /\ EmptyOutput(response.out)) =>
               /\ pc' = "loop"
               /\ processed' = processed + Len(batch)
               /\ progressCalls' = Append(progressCalls, << processed', total >>)
               /\ i' = i + BatchSizeOf(impl)
               /\ thrown' = NoError

\* C16 -- Strict-schema policy: in the core translateMessages and
\* reviseMessages a batch whose structured output is absent or empty adds no
\* key and no suggestion and raises no error; progress then advances by the
\* batch's entry count and the loop goes on to the next batch.
C16_StrictSchemaSkipsEmptyOutput ==
    [][StrictSchemaStep]_vars

C16_Witness ==
    /\ impl = "core"
    /\ pc = "await"
    /\ Len(batches) = 2
    /\ reconciled[1].value = << >>
    /\ translated = << >>
    /\ processed = TRANSLATION_BATCH_SIZE
    /\ thrown = NoError

\* C15 -- Malformed model output never raises in revision and advising:
\* whatever text the model returns to adviseWebsite, the call resolves to a
\* list of suggestions; it rejects only when the model invocation fails.
\* (Refuted: adviseWebsite hands the matched [...] region to JSON.parse
\* outside of any try, so a region that is no JSON rejects the call with a
\* SyntaxError.)
C15_MalformedOutputNeverRaises ==
    (variant = "adviseWebsite" /\ apc = "rejected") => rejection \in ProviderErrors

\* The scanner and its yields after the characters p..n of cs, consumed as
\* one chunk by a scanner in state st that has yielded ys.
RECURSIVE OneChunkFrom(_, _, _, _, _)
OneChunkFrom(st, ys, cs, p, n) ==
    IF p > n THEN [st |-> st, ys |-> ys]
    ELSE LET next == consume(st, cs[p])
         IN IF next.yield = << >>
            THEN OneChunkFrom(next, ys, cs, p + 1, n)
            ELSE OneChunkFrom(next, ys \o next.yield, cs, p + 1, n)

\* The scanner and its yields after the first n characters of cs, consumed
\* as one chunk.
OneChunk(cs, n) == OneChunkFrom(InitialScan, << >>, cs, 1, n)

\* C17 -- The streaming parser is chunking-independent: however the text
\* is split into chunks (in the middle of an object, a string literal or an
\* escape sequence, with empty chunks), the scanner is in the state, and has
\* yielded the objects, that consuming the same characters as a single
\* chunk gives.
C17_ChunkingIndependent ==
    variant = "adviseWebsiteStream" =>
        LET r == OneChunk(answer, pos)
        IN /\ yielded = r.ys
           /\ ScanState = Scan(r.st.inArray, r.st.depth, r.st.inString,
                               r.st.escaped, r.st.currentObject, << >>)

C17_Witness ==
    /\ variant = "adviseWebsiteStream"
    /\ items = << SimpleItem, StringItem >>
    /\ chunkEmpty
    /\ escaped
    /\ inString
    /\ depth > 0
    /\ Len(yielded) = 1

\* The records of the items that are JSON objects, in order.
RECURSIVE ExpectedRecords(_)
ExpectedRecords(l) ==
    IF l = << >> THEN << >>
    ELSE (IF Head(l)[1] = "{" /\ JSONparseChars(Head(l)).ok
          THEN << JSONparseChars(Head(l)).value >>
          ELSE << >>) \o ExpectedRecords(Tail(l))

\* C18 -- Streaming parser yield rule: every yield happens on consuming a
\* "}", yields are in the order of their closing braces, and once the stream
\* has ended each element object of the top-level array that is valid JSON
\* has been yielded exactly once, the brace-balanced elements that are no
\* JSON having been dropped without disturbing the others.
\* (Refuted, only through the fault of C19: after a preamble with a quote
\* character the scanner takes the array for the inside of a string and
\* yields none of its elements.)
C18_EachElementYieldedOnce ==
    variant = "adviseWebsiteStream" =>
        /\ \A j \in DOMAIN yieldedAt : answer[yieldedAt[j]] = "}"
        /\ \A j \in DOMAIN yieldedAt : j > 1 => yieldedAt[j - 1] < yieldedAt[j]
        /\ Len(yieldedAt) = Len(yielded)
        /\ apc = "ended" => yielded = ExpectedRecords(items)

\* C19 -- Characters before the first "[" are ignored: for a preamble P
\* without "[" and a text A, the parser yields for P followed by A what it
\* yields for A alone.
\* (Refuted: a quote character of the preamble toggles inString before the
\* array is entered, and the "[" and the elements are then skipped as the
\* content of a string.)
C19_PreambleIgnored ==
    (variant = "adviseWebsiteStream" /\ apc = "ended") =>
        yielded = OneChunk(SubSeq(answer, Len(preamble) + 1, Len(answer)),
                           Len(answer) - Len(preamble)).ys

\* A step that consumes a character while the scanner is inside a string, or
\* inside an element: brackets and braces in a string change nothing but the
\* accumulated text, a backslash escapes the next character, an escaped
\* character (a quote, a second backslash) neither ends the string nor
\* escapes its successor, an unescaped quote ends the string, and a nested
\* object opens and closes within the element without a yield.
StringAndNestingStep ==
    (variant = "adviseWebsiteStream" /\ pos' = pos + 1) =>
        /\ (inString /\ ~escaped /\ depth > 0
                /\ answer[pos'] \in {"{", "}", "[", "]"}) =>
               /\ depth' = depth
               /\ inString'
               /\ yielded' = yielded
               /\ currentObject' = Append(currentObject, answer[pos'])
        /\ (inString /\ ~escaped /\ answer[pos'] = Backslash) =>
               (inString' /\ escaped' /\ depth' = depth /\ yielded' = yielded)
        /\ (inString /\ escaped) =>
               (inString' /\ ~escaped' /\ depth' = depth /\ yielded' = yielded)
        /\ (inString /\ ~escaped /\ answer[pos'] = Quote) => (~inString' /\ ~escaped')
        /\ (~inString /\ depth > 0 /\ answer[pos'] = "{") =>
               /\ depth' = depth + 1
               /\ yielded' = yielded
               /\ currentObject' = Append(currentObject, answer[pos'])
        /\ (~inString /\ depth > 1 /\ answer[pos'] = "}") =>
               /\ depth' = depth - 1
               /\ yielded' = yielded
               /\ currentObject' = Append(currentObject, answer[pos'])

\* C20 -- Streaming parser string and escape handling: inside a string
\* literal of an element the characters { } [ ] do not change the depth or
\* end the element, an escaped quote does not end the literal, a doubled
\* backslash followed by a quote does; nested objects are accumulated into
\* their element and not yielded separately.
C20_StringAndEscapeHandling ==
    [][StringAndNestingStep]_vars

C20_Witness ==
    /\ variant = "adviseWebsiteStream"
    /\ apc = "ended"
    /\ preamble = << >>
    /\ items = << StringItem, NestedItem >>
    /\ yielded = << JSONparseChars(StringItem).value, JSONparseChars(NestedItem).value >>

\* ------------------------------------------------------------ C21 .. C23
\* C21 -- Streaming cancellation: once the client has aborted its POST
\* /api/advise request, adviseWebsiteStream yields no further suggestion for
\* it and nothing further is enqueued, whatever the model goes on to write.
\* (Refuted: the stream of the response has no cancel callback and no abort
\* signal reaches adviseWebsiteStream or streamText, so the loop of start()
\* reads on, the parser completes the element it holds, the suggestion is
\* yielded, and it is enqueued too unless the body stream is cancelled by
\* then; only the TypeError of enqueue on a cancelled stream ends the loop.)
C21_NothingAfterAbort ==
    aborted => (sinceAbort.yielded = 0 /\ sinceAbort.enqueued = 0)

\* The lines of the suggestions l.
SuggestionLines(l) == [j \in DOMAIN l |-> SuggestionLine(l[j])]

\* The body of a request that its client has not aborted.
WireContract ==
    /\ closeCalls <= 1
    /\ ~aborted =>
          /\ \A j \in DOMAIN chunks : chunks[j].error => j = Len(chunks)
          /\ hpc = "streaming" =>
                 (chunks = SuggestionLines(suggestionsOut) /\ closeCalls = 0)
          /\ hpc = "closed" =>
                 /\ closeCalls = 1
                 /\ streamState = "closed"
                 /\ generator \in {"done", "thrown"}
                 /\ generator = "done" => chunks = SuggestionLines(suggestionsOut)
                 /\ generator = "thrown" =>
                        chunks = SuggestionLines(suggestionsOut)
                                     \o << ErrorLine(IF streamThrew.isError
                                                     THEN streamThrew.message
                                                     ELSE << "Unknown error" >>) >>
          /\ hpc # "failed"

ResultOf(c) == accumulators[AccumulatorOf(c)]

\* One call alone, given the outcomes of its model invocations in order: its
\* local variables and its accumulator once the outcomes up to log[k - 1] are
\* consumed and every backoff timer set since has fired.
RECURSIVE AloneFrom(_, _, _, _)
AloneFrom(call, acc, log, k) ==
    IF call.pc = "sleep" THEN AloneFrom(TimerFired(call), acc, log, k)
    ELSE IF k > Len(log) \/ call.pc \in {"done", "thrown"}
    THEN [call |-> call, acc |-> acc]
    ELSE IF log[k].kind = "text"
         THEN LET after == Resolved(call, acc, log[k].text)
              IN AloneFrom(after.call, after.acc, log, k + 1)
         ELSE AloneFrom(Rejected(call, log[k].error), acc, log, k + 1)

RunAlone(es, log) == AloneFrom(LoopHead(NewCall(es)), << >>, log, 1)

\* The call once its pending backoff timer, if any, has fired.
Settled(call) == IF call.pc = "sleep" THEN TimerFired(call) ELSE call

\* The invocations withRetry made for the batch the call is at.
AttemptsOf(call) == call.attempt + 1

\* C23: when two calls of translateMessages are interleaved at their
\* suspension points (model invocations and backoff sleeps), each call has the
\* returned result, the sequence of onProgress calls, the retry and attempt
\* counts and the rejection it has when it runs alone with the same model
\* responses.
C23_ConcurrentCallsIsolated ==
    \A c \in Callers :
        pair[c].pc # "called" =>
            LET alone == RunAlone(pair[c].entries, modelLog[c])
                mine == Settled(pair[c])
            IN /\ mine.pc = alone.call.pc
               /\ mine.progressCalls = alone.call.progressCalls
               /\ mine.processed = alone.call.processed
               /\ mine.retries = alone.call.retries
               /\ mine.invocations = alone.call.invocations
               /\ AttemptsOf(mine) = AttemptsOf(alone.call)
               /\ mine.thrown = alone.call.thrown
               /\ ResultOf(c) = alone.acc

\* Both calls returned after running interleaved, each with two batches, call
\* 1 after a retry, and their results differ.
C23_Witness ==
    /\ overlapped
    /\ \A c \in Callers : pair[c].pc = "done" /\ Len(pair[c].progressCalls) = 2
    /\ pair[1].retries > 0
    /\ pair[2].retries = 0
    /\ ResultOf(1) # ResultOf(2)
    /\ ResultOf(1) = Translations(Range(pair[1].entries))

C25_SleepsOnlyBetweenAttempts ==
    (impl \in RetryImpls /\ batchCalls > 0) =>
        /\ pc = "sleep" =>
               /\ Len(slept) = batchCalls
               /\ LoopOf(impl, NextAttempt(attempt))
        /\ pc # "sleep" => Len(slept) = batchCalls - 1
        /\ pc = "await" => Len(slept) = attempt

C25_Witness ==
    /\ impl = "cli"
    /\ pc = "progress"
    /\ batchCalls = 2
    /\ Len(slept) = 1
    /\ Len(batches) = 2

\* The provider errors with '429', 'Resource exhausted' or 'quota' in the
\* message of an Error.
RateLimitFailures == {ErrorOf(Msg429), ErrorOf(MsgExhausted), ErrorOf(MsgQuota)}

\* C26 -- Rate-limit classification: a failure is treated as rate-limited
\* (backed off and retried, or answered with the exhaustion error at the
\* last attempt) exactly when the thrown value is an Error whose message
\* contains '429', 'Resource exhausted' or 'quota'; an Error with another
\* message, with 'Quota' in another case, and a thrown value that is no
\* Error are fatal: thrown on at once.
C26_RateLimitClassification ==
    (impl \in RetryImpls /\ caught # NoError) =>
        /\ caught \in RateLimitFailures =>
               \/ pc \in {"sleep", "await"}
               \/ /\ pc = "thrown"
                  /\ rateLimited = batchCalls
                  /\ ~LoopOf(impl, NextAttempt(attempt))
        /\ caught \notin RateLimitFailures =>
               /\ pc = "thrown"
               /\ thrown = caught
               /\ Len(slept) = batchCalls - 1
        /\ (pc = "sleep") => caught \in RateLimitFailures

C26_Witness ==
    /\ impl = "translator"
    /\ pc = "thrown"
    /\ caught = ThrownString(Msg429)
    /\ thrown = caught
    /\ batchCalls = 1

\* C28 -- Progress counts completed attempts: onProgress is called once per
\* batch, after the batch's response is reconciled, and the k-th call
\* carries current = min(k * B, N) and total = N, whether the batch was
\* merged, fell back to the source values, or contributed nothing.
C28_ProgressCountsCompletedBatches ==
    /\ \A k \in DOMAIN progressCalls :
          progressCalls[k] = << Min(k * BatchSizeOf(impl), total), total >>
    /\ Len(progressCalls) <= Len(reconciled)
    /\ pc = "progress" => Len(reconciled) = Len(progressCalls) + 1
    /\ pc # "progress" => Len(reconciled) = Len(progressCalls)
    /\ pc = "done" => Len(progressCalls) = Len(batches)

C28_Witness ==
    /\ pc = "done"
    /\ impl = "translator"
    /\ Len(progressCalls) = 2
    /\ reconciled[1].fallback
    /\ ~reconciled[2].fallback
    /\ progressCalls[2] = << total, total >>
    /\ total < 2 * batchSize

\* C27 -- verifyApiKey always resolves to a boolean and never rejects: false
\* without any request for an empty key, false whenever the probe request
\* throws, true for gemini and openai exactly when the probe is answered
\* with status 200, and true for anthropic exactly when it is answered with
\* a status other than 401.
C27_VerifyApiKeyResolvesBoolean ==
    /\ outcome.settled # "rejected"
    /\ vpc = "settled" =>
          /\ outcome.settled = "resolved"
          /\ outcome.value \in BOOLEAN
          /\ apiKey = << >> => (~outcome.value /\ ~probe.sent)
          /\ apiKey # << >> => probe.sent
          /\ probe.threw => ~outcome.value
          /\ (probe.sent /\ ~probe.threw /\ provider \in {"gemini", "openai"}) =>
                 (outcome.value <=> probe.status = 200)
          /\ (probe.sent /\ ~probe.threw /\ provider = "anthropic") =>
                 (outcome.value <=> probe.status # 401)

C27_Witness ==
    /\ vpc = "settled"
    /\ provider = "anthropic"
    /\ probe.sent
    /\ probe.status = 400
    /\ outcome = Resolve(TRUE)
    /\ verifications = 2

\* The words the caller supplies that reach the prompt of a batch.
SuppliedText ==
    LanguageName(targetLanguage)
    \o FlatRange([k \in DOMAIN promptBatch |->
                     promptBatch[k].key \o << "|" >> \o promptBatch[k].value \o << "|" >>],
                 1, Len(promptBatch))

\* C29 -- Context conditionality: the prompt sent for a batch contains the
\* 'Product context' heading followed by the literal context when context is
\* not empty; when context is the empty string it has no context section,
\* and contains 'Product context' only if the texts the caller supplies for
\* the batch (target language, message keys and texts) contain it. This holds
\* for translation and for revision prompts.
C29_ContextConditionality ==
    bpc = "sent" =>
        /\ context # << >> =>
               /\ includes(prompt, ProductContext \o
                             << IF builder = "revise" THEN " for better understanding:"
                                ELSE " for better translations:", "\n" >> \o context)
               /\ includes(systemPrompt, ProductContext)
        /\ context = << >> =>
               /\ ~includes(systemPrompt, ProductContext)
               /\ includes(prompt, ProductContext)
                      <=> includes(SuppliedText, ProductContext)
               /\ \A k \in DOMAIN prompt :
                      prompt[k] \notin {" for better understanding:",
                                        " for better translations:"}

\* C29 as stated: with an empty context the prompt of no batch contains
\* 'Product context'.
C29_NoMarkerWithoutContext ==
    (bpc = "sent" /\ context = << >>) => ~includes(prompt, ProductContext)

C29_Witness ==
    /\ bpc = "sent"
    /\ context = << >>
    /\ promptsSent = 2
    /\ builder = "translator"
    /\ includes(prompt, ProductContext)
    /\ ~includes(systemPrompt, ProductContext)

\* The URL without its trailing slashes, read from the end of the URL.
NoTrailingSlash(u) ==
    IF \A k \in DOMAIN u : u[k] = "/" THEN << >>
    ELSE SubSeq(u, 1, SetMax({k \in DOMAIN u : u[k] # "/"}))

\* The URLs of l[lo..hi] without their trailing slashes.
RECURSIVE Stripped(_, _, _)
Stripped(l, lo, hi) ==
    IF lo > hi THEN << >>
    ELSE IF lo = hi THEN << NoTrailingSlash(l[lo]) >>
    ELSE Stripped(l, lo, (lo + hi) \div 2) \o Stripped(l, (lo + hi) \div 2 + 1, hi)

\* The index in l of the first element that equals u, 0 when there is none.
FirstOccurrence(l, u) ==
    IF \E p \in DOMAIN l : l[p] = u THEN SetMin({p \in DOMAIN l : l[p] = u})
    ELSE 0

\* For each of us[lo..hi], the index in l of its first occurrence.
RECURSIVE FirstOccurrences(_, _, _, _)
FirstOccurrences(l, us, lo, hi) ==
    IF lo > hi THEN << >>
    ELSE IF lo = hi THEN << FirstOccurrence(l, us[lo]) >>
    ELSE FirstOccurrences(l, us, lo, (lo + hi) \div 2)
             \o FirstOccurrences(l, us, (lo + hi) \div 2 + 1, hi)

\* C30 -- Sitemap result bound: GET /api/sitemap answers with a URL list,
\* never with an error. The list has at most 50 entries, none equal to the
\* analyzed URL after stripping trailing slashes, no two equal after
\* stripping trailing slashes; its URLs are the first occurrences, in their
\* order, among the URLs that were read, and none is left out while the list
\* is shorter than 50. The list is empty when the request has no valid URL,
\* when a fetch throws and when the sitemap of the site is not served.
C30_SitemapResultBound ==
    /\ sitemapResponse.kind # "error"
    /\ gpc = "responded" =>
          LET urls == sitemapResponse.urls
              analyzed == NoTrailingSlash(analyzedUrl)
              read == Stripped(candidates, 1, Len(candidates))
              listed == Stripped(urls, 1, Len(urls))
              first == FirstOccurrences(read, listed, 1, Len(listed))
          IN /\ sitemapResponse.kind = "json"
             /\ Len(urls) <= 50
             /\ \A j \in DOMAIN listed : listed[j] # analyzed
             /\ \A j, k \in DOMAIN listed : j # k => listed[j] # listed[k]
             /\ \A j \in DOMAIN urls :
                    /\ first[j] > 0
                    /\ candidates[first[j]] = urls[j]
             /\ \A j \in DOMAIN urls : j > 1 => first[j - 1] < first[j]
             /\ Len(urls) < 50 =>
                    \A p \in DOMAIN read :
                        \/ read[p] = analyzed
                        \/ \E j \in DOMAIN listed : listed[j] = read[p]
             /\ failure # "none" => urls = << >>

C30_Witness ==
    /\ gpc = "responded"
    /\ analyzedUrl = PageUrl(3, 2)
    /\ Len(subSitemapUrls) = maxSubSitemaps
    /\ Len(candidates) > 50
    /\ Len(sitemapResponse.urls) = 50
    /\ sitemapResponse.urls[1] = PageUrl(1, 0)
    /\ sitemapResponse.urls[2] = HomeUrl(1)
    /\ sitemapResponse.urls[3] = PageUrl(2, 2)
    /\ sitemapResponse.urls[4] = PageUrl(4, 0)

\* ------------------------------------------------------------ C31 .. C40
\* The positions of the line ends of s[lo..hi], in order.
RECURSIVE NewlinesIn(_, _, _)
NewlinesIn(s, lo, hi) ==
    IF lo > hi THEN << >>
    ELSE IF lo = hi THEN (IF s[lo] = "\n" THEN << lo >> ELSE << >>)
    ELSE NewlinesIn(s, lo, (lo + hi) \div 2) \o NewlinesIn(s, (lo + hi) \div 2 + 1, hi)

\* Reading a JSON string of s whose opening quote is just before position p:
\* its characters, escapes undone, and the position after its closing quote.
RECURSIVE JsonStringAt(_, _, _)
JsonStringAt(s, p, acc) ==
    IF p > Len(s) THEN [ok |-> FALSE, value |-> acc, next |-> p]
    ELSE IF s[p] = Quote THEN [ok |-> TRUE, value |-> acc, next |-> p + 1]
    ELSE IF s[p] = Backslash
         THEN IF p + 1 > Len(s) THEN [ok |-> FALSE, value |-> acc, next |-> p]
              ELSE JsonStringAt(s, p + 2, Append(acc, s[p + 1]))
    ELSE JsonStringAt(s, p + 1, Append(acc, s[p]))

\* Reading one line of an indented JSON object: '  "key": "value"' and a comma
\* unless the line is the last.
MemberLine(line, isLast) ==
    LET k == JsonStringAt(line, 3, << >>)
        v == JsonStringAt(line, k.next + 3, << >>)
    IN IF /\ Len(line) >= 2
          /\ line[1] = "  "
          /\ line[2] = Quote
          /\ k.ok
          /\ k.next + 2 <= Len(line)
          /\ line[k.next] = ":"
          /\ line[k.next + 1] = " "
          /\ line[k.next + 2] = Quote
          /\ v.ok
          /\ IF isLast THEN v.next = Len(line) + 1
             ELSE v.next = Len(line) /\ line[v.next] = ","
       THEN [ok |-> TRUE, key |-> k.value, value |-> v.value]
       ELSE [ok |-> FALSE, key |-> << >>, value |-> << >>]

\* Reading the indented JSON object that ends a prompt: its members in order.
PayloadEntries(payload) ==
    IF payload = << "{}" >> THEN [ok |-> TRUE, entries |-> << >>]
    ELSE LET nl == NewlinesIn(payload, 1, Len(payload))
             n == Len(nl) - 1
             member == [j \in 1..n |->
                           MemberLine(SubSeq(payload, nl[j] + 1, nl[j + 1] - 1),
                                      j = n)]
         IN IF /\ Len(payload) >= 3
               /\ payload[1] = "{"
               /\ payload[Len(payload)] = "}"
               /\ n >= 1
               /\ nl[1] = 2
               /\ nl[n + 1] = Len(payload) - 1
               /\ \A j \in 1..n : member[j].ok
            THEN [ok |-> TRUE,
                  entries |-> [j \in 1..n |->
                                  [key |-> member[j].key, value |-> member[j].value]]]
            ELSE [ok |-> FALSE, entries |-> << >>]

\* Batch k of the messages, for batches of B.
BatchOfMessages(k, B) ==
    SubSeq(messages, (k - 1) * B + 1, Min(k * B, Len(messages)))

\* C31 -- One system prompt per run and exact batch payload: the prompt of
\* every batch of a run begins with the one system prompt built for the run,
\* followed by the same instructions; the JSON object that ends the prompt of
\* batch k holds the key/value pairs of batch k, all of them and no others,
\* in their order; there is one prompt per batch, in batch order.
C31_OneSystemPromptExactPayload ==
    /\ Len(prompts) <= CeilDiv(Len(messages), BatchSizeOf(builder))
    /\ bpc = "done" => Len(prompts) = CeilDiv(Len(messages), BatchSizeOf(builder))
    /\ \A k \in DOMAIN prompts :
          LET n == Len(SystemPromptOf(builder, targetLanguage, errorTypes, context))
              read == PayloadEntries(SubSeq(prompts[k], n + 2, Len(prompts[k])))
          IN /\ Len(prompts[k]) >= n + 2
             /\ SubSeq(prompts[k], 1, n)
                    = SystemPromptOf(builder, targetLanguage, errorTypes, context)
             /\ SubSeq(prompts[k], 1, n + 1) = SubSeq(prompts[1], 1, n + 1)
             /\ read.ok
             /\ read.entries = BatchOfMessages(k, BatchSizeOf(builder))

\* A run of packages/translator with a context sent two prompts; the second
\* holds the one message left, whose text is 'Product context'.
C31_Witness ==
    /\ bpc = "done"
    /\ builder = "translator"
    /\ Truthy(context)
    /\ Len(prompts) = 2
    /\ prompts[1] # prompts[2]
    /\ PayloadEntries(SubSeq(prompts[2], Len(systemPrompt) + 2, Len(prompts[2]))).entries
           = << Entry(batchSize + 1, ProductContext) >>

\* C32 -- Retry state is local to each batch invocation: in packages/translator
\* every batch starts at attempt index 0, so the attempt index is the number
\* of invocations already made for this batch, whatever earlier batches
\* consumed; the backoff delays of a batch are 2 s, 4 s, ... from its own
\* first retry; the budget is exhausted only by maxAttempts invocations for
\* one batch; and the call makes at most ceil(N/B) * maxAttempts invocations.
C32_RetryStateLocalToBatch ==
    impl = "translator" =>
        /\ attempt < maxAttempts
        /\ pc = "await" => attempt = batchCalls - 1
        /\ pc = "sleep" => attempt = batchCalls - 1
        /\ batchCalls <= maxAttempts
        /\ \A j \in DOMAIN slept : slept[j] = baseDelayMs * (2 ^ (j - 1))
        /\ (pc = "thrown" /\ thrown = RateLimitError) => batchCalls = maxAttempts
        /\ invocations <= Len(batches) * maxAttempts
        /\ invocations <= CeilDiv(total, batchSize) * maxAttempts

\* The second batch exhausts its budget of three invocations after the first
\* batch succeeded at its third: six invocations for two batches.
C32_Witness ==
    /\ impl = "translator"
    /\ pc = "thrown"
    /\ thrown = RateLimitError
    /\ Len(batches) = 2
    /\ total = batchSize + 1
    /\ batchCalls = maxAttempts
    /\ retried = 4
    /\ invocations = 2 * maxAttempts
    /\ slept = << baseDelayMs, 2 * baseDelayMs >>

\* C35 -- Failure in the middle of a run: when the invocation for batch k of
\* translateMessages (packages/translator, core) fails fatally or exhausts its
\* retry budget, the call rejects: with the provider's error, or with
\* RateLimitError after maxAttempts rate-limited invocations for the batch.
\* onProgress has then been called exactly k - 1 times, once for each earlier
\* batch, k - 1 batches are reconciled, no batch after k was built or
\* invoked, no invocation is outstanding, and the call takes no further step:
\* it neither calls onProgress again nor returns a result.
C35_FailureInMidRun ==
    (pc = "thrown" /\ impl \in {"translator", "core"}) =>
        LET k == Len(batches)
        IN /\ k >= 1
           /\ i = (k - 1) * BatchSizeOf(impl)
           /\ thrown = IF impl = "translator" /\ isRateLimited(caught)
                       THEN RateLimitError
                       ELSE caught
           /\ caught \in ProviderErrors
           /\ thrown = RateLimitError => batchCalls = maxAttempts
           /\ Len(progressCalls) = k - 1
           /\ \A j \in DOMAIN progressCalls :
                  progressCalls[j] = << j * BatchSizeOf(impl), total >>
           /\ Len(reconciled) = k - 1
           /\ inflight = {}
           /\ invocations = k + retried
           /\ ~ENABLED Next

\* The second of three batches fails fatally at its second invocation.
C35_Witness ==
    /\ pc = "thrown"
    /\ impl = "translator"
    /\ total = 2 * batchSize + batchSize \div 2
    /\ Len(batches) = 2
    /\ thrown = ErrorOf(MsgAuth)
    /\ batchCalls = 2
    /\ progressCalls = << << batchSize, total >> >>
    /\ DOMAIN translated = 1..batchSize

\* The closing braces among the first n characters of the text.
ClosingBraces(text, n) == Cardinality({q \in 1..n : text[q] = "}"})

\* C33 -- The streaming sequence is finite: once the text stream has ended,
\* parseStreamingJsonArray and adviseWebsiteStream are complete and take no
\* further step, and the end of the text is the end of the sequence; every
\* record is yielded on a closing brace, at most one per brace, so the
\* records yielded never outnumber the closing braces consumed; an element
\* whose closing brace did not arrive before the end is never yielded: of a
\* text cut in its last element, the elements before the last are yielded.
C33_StreamingSequenceFinite ==
    variant = "adviseWebsiteStream" =>
        /\ Len(yieldedAt) = Len(yielded)
        /\ \A j \in DOMAIN yieldedAt :
               /\ yieldedAt[j] <= pos
               /\ answer[yieldedAt[j]] = "}"
               /\ j > 1 => yieldedAt[j - 1] < yieldedAt[j]
        /\ Len(emitted) <= Len(yielded)
        /\ Len(yielded) <= ClosingBraces(answer, pos)
        /\ (apc = "stream" /\ pos = Len(answer)) => ENABLED StreamEnds
        /\ apc = "ended" => (pos = Len(answer) /\ ~ENABLED NextAdvise)
        /\ answer = TruncatedText(items) =>
               /\ Len(yielded) < Len(items)
               /\ apc = "ended" =>
                      /\ yielded = ExpectedRecords(SubSeq(items, 1, Len(items) - 1))
                      /\ depth > 0
                      /\ currentObject # << >>

\* The stream ended in the second element, after the opening brace of its
\* nested object: the first element was yielded, the second never is.
C33_Witness ==
    /\ variant = "adviseWebsiteStream"
    /\ apc = "ended"
    /\ answer = TruncatedText(<< SuggestionItem, NestedItem >>)
    /\ depth = 1
    /\ Len(currentObject) = Len(NestedItem) - 1
    /\ yielded = << JSONparseChars(SuggestionItem).value >>
    /\ Len(emitted) = 1

\* C37 -- Scanner state invariant of parseStreamingJsonArray: after any
\* prefix of any text the depth is at least 0, the accumulated object text is
\* empty whenever the depth is 0, and the depth is 0 while the scanner is
\* not inside the top-level array.
\* (Refuted: a "}" met at depth 0 inside the array is counted like any other,
\* prompts.ts 668-669: the depth becomes -1 and the brace is kept, and the
\* "{" of the next element brings the depth to 0 with the text "}{" held.)
C37_ScannerStateInvariant ==
    variant = "adviseWebsiteStream" =>
        /\ depth >= 0
        /\ depth = 0 => currentObject = << >>
        /\ ~inArray => depth = 0

\* C38 -- Only direct elements of the first top-level array are yielded:
\* every record yielded is the value of an element of the array, the k-th
\* record that of an element not before the k-th.
\* (Refuted: inArray is never reset at "]", and a "[" met inside the array is
\* skipped, prompts.ts 652-659: an object after the closing bracket and an
\* object inside a nested array are yielded like elements.)
C38_OnlyDirectElementsYielded ==
    variant = "adviseWebsiteStream" =>
        /\ Len(yielded) <= Len(items)
        /\ \A j \in DOMAIN yielded :
               \E k \in DOMAIN items :
                   /\ k >= j
                   /\ items[k][1] = "{"
                   /\ JSONparseChars(items[k]).ok
                   /\ yielded[j] = JSONparseChars(items[k]).value

\* What adviseWebsite does with a text: it throws, or it returns a list.
AdvisedFor(text) ==
    IF arrayMatch(text) = << >> THEN [throws |-> FALSE, list |-> << >>]
    ELSE IF ~JSONparseChars(arrayMatch(text)).ok THEN [throws |-> TRUE, list |-> << >>]
    ELSE [throws |-> FALSE,
          list |-> IF ArraySuccess(JSONparseChars(arrayMatch(text)).value)
                   THEN ArrayData(JSONparseChars(arrayMatch(text)).value)
                   ELSE << >>]

\* C36 -- Streaming and non-streaming advising agree: once the stream of a
\* text has ended, the records adviseWebsiteStream yielded are, in order, the
\* list adviseWebsite returns for the same text.
\* (Refuted: adviseWebsite validates the array as a whole, prompts.ts 582-597,
\* and returns [] when one element violates the schema, and it throws when
\* the matched region is no JSON; adviseWebsiteStream validates element by
\* element, prompts.ts 733-737, and yields the valid ones.)
C36_StreamingAgreesWithAdvise ==
    (variant = "adviseWebsiteStream" /\ apc = "ended") =>
        /\ ~AdvisedFor(answer).throws
        /\ emitted = AdvisedFor(answer).list

\* C40 -- POST /api/advise always answers with a Response and never throws:
\* whatever the body and whether or not the key is configured, the handler
\* returns 500 (no key), 400 (body no JSON, or no valid URL in it) or a 200
\* stream.
\* (Refuted: body.url.trim() at advise.ts 16 is outside of the try blocks; for
\* a JSON body without a string url it throws a TypeError and POST rejects.)
C40_PostAlwaysAnswers ==
    /\ hpc # "threw"
    /\ hpc \notin {"called", "idle"} =>
          /\ postResponse \in {200, 400, 500}
          /\ postResponse = 500 <=> ~postRequest.apiKey
          /\ postResponse = 200 <=>
                 (postRequest.apiKey /\ postRequest.json /\ postRequest.url = "valid")

\* C34 -- The web client distinguishes a failed analysis from a clean empty
\* result: 'No issues found.' is on the page only when the newest analysis
\* ended with a stream that closed without an error line and without
\* suggestions; it is not there after an error line or a response that is not
\* ok. (A call that rejects, with 'Failed to connect to the server', is
\* neither and is left aside.)
\* (Refuted: setSuggestions([]) precedes the reading of the stream, part_005
\* 122, and the error line leaves it in place, 137-140: after an error line
\* that follows no suggestion, suggestions is [] and loading is false, and
\* the page shows the error and 'No issues found.' together.)
C34_EmptyResultOnlyWhenClean ==
    /\ (abortRef # 0 /\ requests[abortRef].outcome \in {"error line", "not ok"})
           => ~NoIssuesShown
    /\ NoIssuesShown =>
           /\ abortRef # 0
           /\ requests[abortRef].outcome \in {"clean", "failed"}
           /\ requests[abortRef].lines = 0

\* C39 -- Web client loading flag under overlapping submissions: while a call
\* of handleSubmit is in flight and not aborted, loading is true.
\* (Refuted: the finally block of an aborted call runs setLoading(false),
\* part_005 150-152, after the newer call has set loading to true.)
C39_LoadingWhileInFlight ==
    (\E r \in DOMAIN requests :
         requests[r].phase # "done" /\ ~requests[r].aborted) => loading
====
